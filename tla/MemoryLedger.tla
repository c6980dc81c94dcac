---------------------------- MODULE MemoryLedger ----------------------------
(***************************************************************************)
(* What api/session_lifecycle.py promises about the turns of one session,  *)
(* whatever data structure keeps the promise: a completed turn is owed to  *)
(* the memory provider, together with the agent that must extract it,      *)
(* until an extraction that was begun after the turn completed, and that   *)
(* runs on the owning agent, succeeds.                                     *)
(***************************************************************************)
EXTENDS Integers

CONSTANTS Session, Agent, NoAgent, Turn

VARIABLES
  owed,    \* owed[s]: pairs <<turn, owner>> not extracted yet
  batch    \* batch[s]: the turns of the extraction under way, {} if none

ledgerVars == <<owed, batch>>

LedgerInit ==
  /\ owed = [s \in Session |-> {}]
  /\ batch = [s \in Session |-> {}]

(* A turn completes: it is newer than every turn still owed, and it joins  *)
(* the ledger even while an extraction is under way.                       *)
Complete(s) ==
  /\ \E n \in Turn, a \in Agent \union {NoAgent} :
       /\ \A p \in owed[s] : p[1] < n
       /\ owed' = [owed EXCEPT ![s] = @ \union {<<n, a>>}]
  /\ UNCHANGED batch

(* The oldest turns, all of one owner, go to that owner.  Turns nobody     *)
(* owned are adopted by the agent that extracts them.                      *)
Start(s) ==
  /\ batch[s] = {}
  /\ \E a \in Agent, last \in Turn :
       LET oldest == {p \in owed[s] : p[1] <= last}
       IN /\ oldest # {}
          /\ \/ \A p \in oldest : p[2] = a
             \/ \A p \in oldest : p[2] = NoAgent
          /\ batch' = [batch EXCEPT ![s] = {p[1] : p \in oldest}]
          /\ owed' = [owed EXCEPT ![s] =
                        (@ \ oldest) \union {<<p[1], a>> : p \in oldest}]

Succeed(s) ==
  /\ batch[s] # {}
  /\ owed' = [owed EXCEPT ![s] = {p \in @ : p[1] \notin batch[s]}]
  /\ batch' = [batch EXCEPT ![s] = {}]

Refuse(s) ==
  /\ batch[s] # {}
  /\ batch' = [batch EXCEPT ![s] = {}]
  /\ UNCHANGED owed

LedgerNext ==
  \E s \in Session : Complete(s) \/ Start(s) \/ Succeed(s) \/ Refuse(s)

LedgerSpec == LedgerInit /\ [][LedgerNext]_ledgerVars
=============================================================================
