------------------------ MODULE MCAnnotationService ------------------------
(* AnnotationService for TLC: how many documents each client opens. *)
EXTENDS AnnotationService

CONSTANT busy   \* a client that opens one document more, to fill its event queues

OneEach == [c \in Clients |-> 1]
TwoEach == [c \in Clients |-> 2]
OneBusy == [c \in Clients |-> IF c = busy THEN 3 ELSE 2]
=============================================================================
