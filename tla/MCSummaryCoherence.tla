------------------------- MODULE MCSummaryCoherence -------------------------
(* Two collaborators ask for summaries, or for the resume, and one key is     *)
(* cached in Redis.                                                           *)
EXTENDS SummaryCoherence

CONSTANT u1

Apart == {[kinds |-> {"summary"}, viewers |-> Viewers],
          [kinds |-> {"resume"}, viewers |-> Viewers],
          [kinds |-> {"aside"}, viewers |-> {u1}]}

=============================================================================
