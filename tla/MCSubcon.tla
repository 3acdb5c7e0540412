------------------------------ MODULE MCSubcon ------------------------------
(* One tool, two profiles, one task that may run once in a window.         *)
EXTENDS Subcon

MCOffers  == [p \in Peer |-> {"rag_search", "check_presence"}]
MCCap     == [t \in Task |-> 1]
MCGap     == [t \in Task |-> 1]
MCNeeds   == [t \in Task |-> {"rag_search"}]
MCReplies == {<<"web_search", "rag_search">>, <<"set_hue_light">>}
=============================================================================
