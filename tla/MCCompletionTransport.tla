------------------------ MODULE MCCompletionTransport ------------------------
(***************************************************************************)
(* Small instances of the completion transport.  Two producers race each   *)
(* other for the first operation; the others use the same slots and are    *)
(* only ever cancelled.                                                    *)
(***************************************************************************)
EXTENDS CompletionTransport

CONSTANTS o1

MCServes == [p \in Producers |-> o1]
=============================================================================
