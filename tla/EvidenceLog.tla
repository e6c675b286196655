---------------------------- MODULE EvidenceLog ----------------------------
(***************************************************************************)
(* What discovery promises the layers above it.  While it is open it       *)
(* learns addresses, and evidence about them.  Closed, the set of known    *)
(* addresses is final: a contributor adds its evidence in one batch or not *)
(* at all, at most once, and no batch identifies an unknown address.       *)
(***************************************************************************)
EXTENDS Evidence

CONSTANT Contributors  \* the runs that may add evidence once discovery is over

VARIABLES phase,    \* "open", "closed", "sealed" or "failed"
          known,    \* the addresses found
          log,      \* the evidence retained
          waiting   \* the contributors that may still add a batch

logVars == <<phase, known, log, waiting>>

LogInit == phase = "open" /\ known = {} /\ log = {} /\ waiting = Contributors

Learn ==
  /\ phase = "open" /\ UNCHANGED <<phase, waiting>>
  /\ known \subseteq known' /\ log \subseteq log'
  /\ \A o \in log' \ log : o.type = "identity" /\ o.subject \in known'

Close == phase = "open" /\ phase' = "closed" /\ UNCHANGED <<known, log, waiting>>

Contribute(c) ==
  /\ phase = "closed" /\ c \in waiting /\ waiting' = waiting \ {c}
  /\ log \subseteq log'
  /\ \A o \in log' \ log : o.run = c /\ (o.type = "identity" => o.subject \in known)
  /\ UNCHANGED <<phase, known>>

Seal == phase = "closed" /\ phase' = "sealed" /\ UNCHANGED <<known, log, waiting>>

(* A failed log is waiting for nobody. *)
Fail ==
  /\ phase \in {"open", "closed"} /\ phase' = "failed"
  /\ waiting' = {} /\ UNCHANGED <<known, log>>

LogNext == Learn \/ Close \/ (\E c \in waiting : Contribute(c)) \/ Seal \/ Fail

LogSpec == LogInit /\ [][LogNext]_logVars
=============================================================================
