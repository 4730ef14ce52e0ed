---------------------------- MODULE MCResources ----------------------------
(***************************************************************************)
(* Small instances, for TLC, of three parts of pafs that own something and *)
(* give it back: poll handles (Poll), mounts (Mounts) and what Main takes  *)
(* (Session).  They share no variable, so that nothing is lost by looking  *)
(* at them one at a time: a behaviour is one of the part it is about, with *)
(* the other two in an initial state.                                      *)
(***************************************************************************)
EXTENDS Poll, Mounts, Session

VARIABLE part  \* the part that the behaviour is about

allVars == <<vars, mountVars, sessionVars, part>>

MCInit ==
  /\ part \in {"poll", "mounts", "session"}
  /\ Init
  /\ MountsInit
  /\ SessionInit
  /\ part # "session" => foreground /\ singlethread /\ ~closedAtStart

Of(p, A) == part = p /\ A /\ UNCHANGED part

PollPart == Of("poll", Next) /\ UNCHANGED <<mountVars, sessionVars>>
MountsPart == Of("mounts", MountsNext) /\ UNCHANGED <<vars, sessionVars>>
SessionPart(A) == Of("session", A) /\ UNCHANGED <<vars, mountVars>>

MCNext == PollPart \/ MountsPart \/ SessionPart(SessionNext)

\* The fairness of FairSessionSpec.
MCSpec ==
  /\ MCInit
  /\ [][MCNext]_allVars
  /\ WF_allVars(SessionPart(Main))
  /\ \A p \in Procs :
       /\ WF_allVars(SessionPart(Serve(p)))
       /\ SF_allVars(SessionPart(\E w \in Workers : Receive(w, p)))
=============================================================================
