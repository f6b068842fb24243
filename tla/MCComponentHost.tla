--------------------------- MODULE MCComponentHost ---------------------------
(***************************************************************************)
(* Three components for TLC: a store, an index over it, and a search tool  *)
(* over both, so that losing the store takes two others with it.           *)
(***************************************************************************)
EXTENDS ComponentHost

ChainNames == {"store", "index", "search"}
ChainSlots == {"store_service", "index_service", "search_tool"}
ChainRequires == [store  |-> {},
                  index  |-> {"store_service"},
                  search |-> {"store_service", "index_service"}]
ChainRegisters == [store  |-> <<"store_service">>,
                   index  |-> <<"index_service">>,
                   search |-> <<"search_tool">>]
=============================================================================
