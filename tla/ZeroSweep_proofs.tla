-------------------------- MODULE ZeroSweep_proofs --------------------------
(***************************************************************************)
(* MailboxStates keeps its promises for every set of members and actions   *)
(* and every bound, and the sweep over it for every list of conversations, *)
(* every batch size, every number of sweeps and every bound, with other    *)
(* clients and other sweeps acting between any two of its calls.           *)
(***************************************************************************)
EXTENDS ZeroSweep, FiniteSetTheorems, TLAPS

(***************************************************************************)
(* Mailbox states.  A revision counts the writes of its membership         *)
(* (RevisionsCountWrites), so a revision that still holds proves that      *)
(* nothing was written since (CommandsAreAnchored) and that the last       *)
(* writer was the action whose receipt saved it (ReceiptsAreAnchored).     *)
(* The three facts are inductive together, and the action properties       *)
(* follow from them.  Nothing here depends on SweepAssumption.             *)
(***************************************************************************)
RevisionsCountWrites == \A m \in Members : state[m].revision = version[m] + 1

CommandsAreAnchored ==
  \A a \in Actions : \A m \in command[a].on :
    /\ command[a].revision[m] = shown[a][m].version + 1
    /\ shown[a][m].version <= version[m]
    /\ shown[a][m].version = version[m] => shown[a][m].state = state[m]

ReceiptsAreAnchored ==
  \A a \in Actions : receipt[a].status = "applied" =>
    /\ receipt[a].on = command[a].on /\ receipt[a].on # {}
    /\ \A m \in receipt[a].on :
         /\ receipt[a].saved[m] <= version[m] + 1
         /\ receipt[a].saved[m] = version[m] + 1 => writer[m] = {a}
         /\ receipt[a].before[m] = shown[a][m].state

MailboxInv == TypeOK /\ RevisionsCountWrites /\ CommandsAreAnchored /\ ReceiptsAreAnchored

\* What Write does, and what everything that is not a write leaves alone.
LEMMA WriteEffect ==
  ASSUME NEW ms, NEW new, NEW who, Write(ms, new, who),
         state \in [Members -> States], version \in [Members -> Nat], writer \in [Members -> SUBSET Actions]
  PROVE  /\ \A m \in Members : m \in ms => state'[m] = new[m] /\ version'[m] = version[m] + 1 /\ writer'[m] = who
         /\ \A m \in Members : m \notin ms => state'[m] = state[m] /\ version'[m] = version[m] /\ writer'[m] = writer[m]
BY DEF Write

\* The rows the handlers write.
LEMMA RowType ==
  ASSUME NEW d \in BOOLEAN, NEW u \in Instants, NEW w \in BOOLEAN, NEW r \in Nat
  PROVE  [done |-> d, until |-> u, woke |-> w, revision |-> r + 1] \in States
<1>1. r + 1 \in Nat \ {0}
  OBVIOUS
<1> QED BY <1>1, Zenon DEF States

\* Every write moves the revision of what it writes on by one and keeps the types of the rows.
LEMMA WriteKeeps ==
  ASSUME NEW ms \in SUBSET Members, NEW new, NEW who \in SUBSET Actions, Write(ms, new, who), TypeOK, RevisionsCountWrites,
         \A m \in ms : new[m] \in States /\ new[m].revision = state[m].revision + 1
  PROVE  /\ state' \in [Members -> States]
         /\ version' \in [Members -> Nat]
         /\ writer' \in [Members -> SUBSET Actions]
         /\ RevisionsCountWrites'
<1>1. /\ state \in [Members -> States] /\ version \in [Members -> Nat] /\ writer \in [Members -> SUBSET Actions]
  BY DEF TypeOK
<1>2. /\ state' \in [Members -> States] /\ version' \in [Members -> Nat] /\ writer' \in [Members -> SUBSET Actions]
  BY <1>1 DEF Write
<1>3. ASSUME NEW m \in Members PROVE state'[m].revision = version'[m] + 1
  <2>1. state[m].revision = version[m] + 1
    BY DEF RevisionsCountWrites
  <2>2. CASE m \in ms
    BY <2>1, <2>2, <1>1 DEF Write
  <2>3. CASE m \notin ms
    BY <2>1, <2>3, <1>1 DEF Write
  <2> QED BY <2>2, <2>3
<1> QED BY <1>2, <1>3 DEF RevisionsCountWrites

\* A write leaves commands and receipts anchored: what it writes moves past them.
LEMMA WriteAnchors ==
  ASSUME NEW ms \in SUBSET Members, NEW new, NEW who, Write(ms, new, who), MailboxInv,
         UNCHANGED <<command, shown>>
  PROVE  /\ CommandsAreAnchored'
         /\ \A a \in Actions : \A m \in receipt[a].on : receipt[a].status = "applied" =>
              /\ receipt[a].saved[m] <= version'[m] + 1
              /\ receipt[a].saved[m] = version'[m] + 1 => writer'[m] = {a}
<1>1. /\ state \in [Members -> States] /\ version \in [Members -> Nat] /\ writer \in [Members -> SUBSET Actions]
      /\ \A a \in Actions : command[a].on \subseteq Members /\ receipt[a].on \subseteq Members
      /\ \A a \in Actions : receipt[a].saved \in [Members -> Nat]
      /\ \A a \in Actions, m \in Members : shown[a][m].version \in Nat
  BY DEF MailboxInv, TypeOK, Commands, Receipts
<1>2. ASSUME NEW a \in Actions, NEW m \in command[a].on
      PROVE  /\ command[a].revision[m] = shown[a][m].version + 1
             /\ shown[a][m].version <= version'[m]
             /\ shown[a][m].version = version'[m] => shown[a][m].state = state'[m]
  <2>1. /\ m \in Members
        /\ command[a].revision[m] = shown[a][m].version + 1
        /\ shown[a][m].version <= version[m]
        /\ shown[a][m].version = version[m] => shown[a][m].state = state[m]
    BY <1>1 DEF MailboxInv, CommandsAreAnchored
  <2>2. version[m] \in Nat /\ shown[a][m].version \in Nat
    BY <1>1, <2>1
  <2>3. \/ state'[m] = state[m] /\ version'[m] = version[m]
        \/ version'[m] = version[m] + 1
    BY <1>1, <2>1 DEF Write
  <2> QED BY <2>1, <2>2, <2>3
<1>3. ASSUME NEW a \in Actions, NEW m \in receipt[a].on, receipt[a].status = "applied"
      PROVE  /\ receipt[a].saved[m] <= version'[m] + 1
             /\ receipt[a].saved[m] = version'[m] + 1 => writer'[m] = {a}
  <2>1. /\ m \in Members
        /\ receipt[a].saved[m] <= version[m] + 1
        /\ receipt[a].saved[m] = version[m] + 1 => writer[m] = {a}
    BY <1>1, <1>3 DEF MailboxInv, ReceiptsAreAnchored
  <2>2. version[m] \in Nat /\ receipt[a].saved[m] \in Nat
    BY <1>1, <2>1
  <2>3. \/ writer'[m] = writer[m] /\ version'[m] = version[m]
        \/ version'[m] = version[m] + 1
    BY <1>1, <2>1 DEF Write
  <2> QED BY <2>1, <2>2, <2>3
<1>4. CommandsAreAnchored'
  BY <1>2 DEF CommandsAreAnchored
<1> QED BY <1>3, <1>4

\* The initial states.
LEMMA InitInv == Init => MailboxInv
<1> SUFFICES ASSUME Init PROVE MailboxInv
  OBVIOUS
<1>1. Fresh \in States
  BY MailboxAssumption DEF Fresh, States, Instants
<1>2. NoCommand \in Commands
  BY MailboxAssumption DEF NoCommand, Commands, Marks, Instants
<1>3. NoReceipt \in Receipts
  BY <1>1 DEF NoReceipt, Receipts
<1>4. TypeOK
  BY <1>1, <1>2, <1>3, MailboxAssumption DEF Init, TypeOK, Instants
<1>5. RevisionsCountWrites
  BY DEF Init, RevisionsCountWrites, Fresh
<1>6. CommandsAreAnchored
  BY DEF Init, CommandsAreAnchored, NoCommand
<1>7. ReceiptsAreAnchored
  BY DEF Init, ReceiptsAreAnchored, NoReceipt
<1> QED BY <1>4, <1>5, <1>6, <1>7 DEF MailboxInv

\* A step that writes rows without touching an action's receipt.
LEMMA PlainWriteInv ==
  ASSUME NEW ms \in SUBSET Members, NEW new, Write(ms, new, {}), MailboxInv,
         \A m \in ms : new[m] \in States /\ new[m].revision = state[m].revision + 1,
         UNCHANGED <<mail, available, clock, command, receipt, shown>>
  PROVE  MailboxInv'
<1>1. TypeOK /\ RevisionsCountWrites
  BY DEF MailboxInv
<1>2. /\ state' \in [Members -> States] /\ version' \in [Members -> Nat] /\ writer' \in [Members -> SUBSET Actions]
      /\ RevisionsCountWrites'
  BY <1>1, WriteKeeps, {} \in SUBSET Actions
<1>3. TypeOK'
  BY <1>1, <1>2 DEF TypeOK
<1>4. /\ CommandsAreAnchored'
      /\ \A a \in Actions : \A m \in receipt[a].on : receipt[a].status = "applied" =>
              /\ receipt[a].saved[m] <= version'[m] + 1
              /\ receipt[a].saved[m] = version'[m] + 1 => writer'[m] = {a}
  BY WriteAnchors
<1>5. ReceiptsAreAnchored'
  BY <1>4 DEF MailboxInv, ReceiptsAreAnchored
<1> QED BY <1>2, <1>3, <1>4, <1>5 DEF MailboxInv

\* A composed action is well typed.
LEMMA ComposeType ==
  ASSUME TypeOK, NEW a \in Actions, NEW ms \in SUBSET Members, NEW done \in Marks, NEW until \in Instants,
         NEW checked \in BOOLEAN, Compose(a, ms, done, until, checked)
  PROVE  command' \in [Actions -> Commands] /\ shown' \in [Actions -> [Members -> [state : States, version : Nat]]]
<1>1. /\ state \in [Members -> States] /\ version \in [Members -> Nat] /\ mail \in [Members -> Nat]
      /\ command \in [Actions -> Commands]
      /\ shown \in [Actions -> [Members -> [state : States, version : Nat]]]
  BY DEF TypeOK
<1> DEFINE c == [on |-> ms, revision |-> [m \in Members |-> IF m \in ms THEN state[m].revision ELSE 0],
                 mail |-> [m \in Members |-> IF checked /\ m \in ms THEN mail[m] ELSE 0], done |-> done, until |-> until]
           v == [m \in Members |-> IF m \in ms THEN [state |-> state[m], version |-> version[m]] ELSE shown[a][m]]
<1>2. command' = [command EXCEPT ![a] = c] /\ shown' = [shown EXCEPT ![a] = v]
  BY DEF Compose
<1>3. \A m \in Members : state[m].revision \in Nat
  BY <1>1 DEF States
<1>4. c \in Commands
  BY <1>1, <1>3 DEF Commands
<1>5. v \in [Members -> [state : States, version : Nat]]
  BY <1>1
<1> HIDE DEF c, v
<1> QED BY <1>1, <1>2, <1>4, <1>5

LEMMA ComposeInv ==
  ASSUME MailboxInv, NEW a \in Actions, NEW ms \in SUBSET Members, NEW done \in Marks, NEW until \in Instants,
         NEW checked \in BOOLEAN, Compose(a, ms, done, until, checked)
  PROVE  MailboxInv'
<1>1. /\ TypeOK /\ RevisionsCountWrites /\ CommandsAreAnchored /\ ReceiptsAreAnchored
      /\ UNCHANGED <<rowVars, mail, available, clock, receipt>> /\ command[a].on = {}
  BY DEF MailboxInv, Compose
<1>2. /\ state \in [Members -> States] /\ version \in [Members -> Nat] /\ mail \in [Members -> Nat]
      /\ command \in [Actions -> Commands]
      /\ shown \in [Actions -> [Members -> [state : States, version : Nat]]]
  BY <1>1 DEF TypeOK
<1> DEFINE c == [on |-> ms, revision |-> [m \in Members |-> IF m \in ms THEN state[m].revision ELSE 0],
                 mail |-> [m \in Members |-> IF checked /\ m \in ms THEN mail[m] ELSE 0], done |-> done, until |-> until]
           v == [m \in Members |-> IF m \in ms THEN [state |-> state[m], version |-> version[m]] ELSE shown[a][m]]
<1>3. command' = [command EXCEPT ![a] = c] /\ shown' = [shown EXCEPT ![a] = v]
  BY DEF Compose
<1> HIDE DEF c, v
<1>5. command' \in [Actions -> Commands] /\ shown' \in [Actions -> [Members -> [state : States, version : Nat]]]
  BY <1>1, ComposeType
<1>7. TypeOK'
  BY <1>1, <1>5 DEF TypeOK, rowVars
<1>8. RevisionsCountWrites'
  BY <1>1 DEF RevisionsCountWrites, rowVars
<1>9. ASSUME NEW b \in Actions, NEW m \in command'[b].on
      PROVE  /\ command'[b].revision[m] = shown'[b][m].version + 1
             /\ shown'[b][m].version <= version[m]
             /\ shown'[b][m].version = version[m] => shown'[b][m].state = state[m]
  <2>1. CASE b = a
    <3>1. command'[a] = c /\ shown'[a] = v
      BY <1>2, <1>3
    <3>2. m \in Members /\ m \in ms
      BY <3>1, <2>1, <1>9 DEF c
    <3>3. c.revision[m] = state[m].revision /\ v[m] = [state |-> state[m], version |-> version[m]]
      BY <3>2 DEF c, v
    <3>4. state[m].revision = version[m] + 1 /\ version[m] \in Nat
      BY <3>2, <1>1, <1>2 DEF RevisionsCountWrites
    <3> QED BY <2>1, <3>1, <3>3, <3>4
  <2>2. CASE b # a
    BY <2>2, <1>1, <1>2, <1>3, <1>9 DEF CommandsAreAnchored
  <2> QED BY <2>1, <2>2
<1>10. CommandsAreAnchored'
  BY <1>1, <1>9 DEF CommandsAreAnchored, rowVars
<1>11. ASSUME NEW b \in Actions, receipt[b].status = "applied"
       PROVE  /\ receipt[b].on = command'[b].on
              /\ \A m \in receipt[b].on : receipt[b].before[m] = shown'[b][m].state
  <2>1. /\ receipt[b].on = command[b].on /\ receipt[b].on # {}
        /\ \A m \in receipt[b].on : receipt[b].before[m] = shown[b][m].state
    BY <1>1, <1>11 DEF ReceiptsAreAnchored
  <2>2. b # a
    BY <2>1, <1>1
  <2> QED BY <2>1, <2>2, <1>2, <1>3
<1>12. ReceiptsAreAnchored'
  BY <1>1, <1>11 DEF ReceiptsAreAnchored, rowVars
<1> QED BY <1>7, <1>8, <1>10, <1>12 DEF MailboxInv

\* What an accepted action does to rows and receipts, whoever composed it.
LEMMA PerformEffect ==
  ASSUME TypeOK, RevisionsCountWrites, NEW a \in Actions, NEW c, c.on \in SUBSET Members, c.until \in Instants,
         Perform(a, c)
  PROVE  /\ state' \in [Members -> States] /\ version' \in [Members -> Nat] /\ writer' \in [Members -> SUBSET Actions]
         /\ receipt' \in [Actions -> Receipts] /\ RevisionsCountWrites'
         /\ receipt'[a].status = "applied" /\ receipt'[a].on = c.on
         /\ \A m \in c.on : /\ receipt'[a].saved[m] = version'[m] + 1 /\ receipt'[a].before[m] = state[m]
                            /\ version'[m] = version[m] + 1 /\ writer'[m] = {a}
         /\ \A m \in Members \ c.on : version'[m] = version[m] /\ writer'[m] = writer[m]
         /\ \A b \in Actions : b # a => receipt'[b] = receipt[b]
<1> DEFINE new == [m \in Members |-> Changed(state[m], c)]
           r == [status |-> "applied", on |-> c.on,
                 saved |-> [m \in Members |-> IF m \in c.on THEN state[m].revision + 1 ELSE 0],
                 before |-> [m \in Members |-> IF m \in c.on THEN state[m] ELSE Fresh]]
<1>1. Write(c.on, new, {a}) /\ receipt' = [receipt EXCEPT ![a] = r]
  BY DEF Perform
<1>2. /\ state \in [Members -> States] /\ version \in [Members -> Nat] /\ writer \in [Members -> SUBSET Actions]
      /\ receipt \in [Actions -> Receipts]
  BY DEF TypeOK
<1>3. \A m \in Members : state[m].revision \in Nat \ {0} /\ state[m].done \in BOOLEAN /\ state[m].revision = version[m] + 1
  BY <1>2 DEF States, RevisionsCountWrites
<1>4. \A m \in Members : Changed(state[m], c) \in States /\ Changed(state[m], c).revision = state[m].revision + 1
  <2> SUFFICES ASSUME NEW m \in Members
               PROVE  Changed(state[m], c) \in States /\ Changed(state[m], c).revision = state[m].revision + 1
    OBVIOUS
  <2> DEFINE d == IF c.done = "keep" THEN state[m].done ELSE c.done = "done"
  <2>1. d \in BOOLEAN
    BY <1>3, Zenon
  <2>2. Changed(state[m], c) = [done |-> d, until |-> c.until, woke |-> FALSE, revision |-> state[m].revision + 1]
    BY Zenon DEF Changed
  <2> HIDE DEF d
  <2>3. [done |-> d, until |-> c.until, woke |-> FALSE, revision |-> state[m].revision + 1] \in States
    BY <1>3, <2>1, RowType
  <2> QED BY <2>2, <2>3
<1>5. Fresh \in States
  BY MailboxAssumption DEF Fresh, States, Instants
<1>6. r \in Receipts
  <2>1. [m \in Members |-> IF m \in c.on THEN state[m].revision + 1 ELSE 0] \in [Members -> Nat]
    BY <1>3
  <2>2. [m \in Members |-> IF m \in c.on THEN state[m] ELSE Fresh] \in [Members -> States]
    BY <1>2, <1>5
  <2> QED BY <2>1, <2>2 DEF Receipts
<1>7. \A m \in c.on : new[m] \in States /\ new[m].revision = state[m].revision + 1
  BY <1>4
<1>8. \A m \in c.on : m \in Members /\ version'[m] = version[m] + 1 /\ writer'[m] = {a}
  BY <1>1 DEF Write
<1>9. \A m \in Members \ c.on : version'[m] = version[m] /\ writer'[m] = writer[m]
  BY <1>1 DEF Write
<1>10. \A m \in c.on : r.saved[m] = state[m].revision + 1 /\ r.before[m] = state[m]
  OBVIOUS
<1>11. r.status = "applied" /\ r.on = c.on
  OBVIOUS
<1> HIDE DEF new, r
<1>12. /\ state' \in [Members -> States] /\ version' \in [Members -> Nat] /\ writer' \in [Members -> SUBSET Actions]
       /\ RevisionsCountWrites'
  BY <1>1, <1>7, WriteKeeps, {a} \in SUBSET Actions
<1>13. receipt' \in [Actions -> Receipts] /\ receipt'[a] = r /\ \A b \in Actions : b # a => receipt'[b] = receipt[b]
  BY <1>1, <1>2, <1>6
<1>14. \A m \in c.on : r.saved[m] = version'[m] + 1
  BY <1>3, <1>8, <1>10
<1> QED BY <1>8, <1>9, <1>10, <1>11, <1>12, <1>13, <1>14

LEMMA PerformInv ==
  ASSUME MailboxInv, NEW a \in Actions, Apply(a)
  PROVE  MailboxInv'
<1> PICK c : c = command[a]
  OBVIOUS
<1>1. /\ TypeOK /\ RevisionsCountWrites /\ CommandsAreAnchored /\ ReceiptsAreAnchored
      /\ c.on # {} /\ UpToDate(c) /\ Perform(a, c)
      /\ UNCHANGED <<mail, available, clock, command, shown>>
  BY DEF MailboxInv, Apply, Perform
<1>2. c.on \in SUBSET Members /\ c.until \in Instants
  BY <1>1 DEF TypeOK, Commands
<1>3. /\ state' \in [Members -> States] /\ version' \in [Members -> Nat] /\ writer' \in [Members -> SUBSET Actions]
      /\ receipt' \in [Actions -> Receipts] /\ RevisionsCountWrites'
      /\ receipt'[a].status = "applied" /\ receipt'[a].on = c.on
      /\ \A m \in c.on : /\ receipt'[a].saved[m] = version'[m] + 1 /\ receipt'[a].before[m] = state[m]
                         /\ writer'[m] = {a}
      /\ \A b \in Actions : b # a => receipt'[b] = receipt[b]
  BY <1>1, <1>2, PerformEffect
<1>4. Write(c.on, [m \in Members |-> Changed(state[m], c)], {a})
  BY <1>1 DEF Perform
<1>5. /\ CommandsAreAnchored'
      /\ \A b \in Actions : \A m \in receipt[b].on : receipt[b].status = "applied" =>
              /\ receipt[b].saved[m] <= version'[m] + 1
              /\ receipt[b].saved[m] = version'[m] + 1 => writer'[m] = {b}
  BY <1>1, <1>2, <1>4, WriteAnchors
<1>6. \A m \in c.on : shown[a][m].state = state[m]
  <2> SUFFICES ASSUME NEW m \in c.on PROVE shown[a][m].state = state[m]
    OBVIOUS
  <2>1. /\ c.revision[m] = shown[a][m].version + 1
        /\ shown[a][m].version = version[m] => shown[a][m].state = state[m]
    BY <1>1 DEF CommandsAreAnchored
  <2>2. state[m].revision = c.revision[m] /\ m \in Members
    BY <1>1, <1>2 DEF UpToDate
  <2>3. version[m] \in Nat /\ shown[a][m].version \in Nat /\ state[m].revision = version[m] + 1
    BY <1>1, <2>2 DEF TypeOK, RevisionsCountWrites
  <2> QED BY <2>1, <2>2, <2>3
<1>7. ASSUME NEW b \in Actions, receipt'[b].status = "applied"
      PROVE  /\ receipt'[b].on = command[b].on /\ receipt'[b].on # {}
             /\ \A m \in receipt'[b].on :
                  /\ receipt'[b].saved[m] <= version'[m] + 1
                  /\ receipt'[b].saved[m] = version'[m] + 1 => writer'[m] = {b}
                  /\ receipt'[b].before[m] = shown[b][m].state
  <2>1. CASE b = a
    <3>1. \A m \in c.on : version'[m] \in Nat
      BY <1>2, <1>3
    <3> QED BY <2>1, <3>1, <1>1, <1>3, <1>6
  <2>2. CASE b # a
    <3>1. receipt'[b] = receipt[b] /\ receipt[b].status = "applied"
      BY <2>2, <1>3, <1>7
    <3> QED BY <3>1, <1>1, <1>5 DEF ReceiptsAreAnchored
  <2> QED BY <2>1, <2>2
<1>8. ReceiptsAreAnchored'
  BY <1>1, <1>7 DEF ReceiptsAreAnchored
<1>9. TypeOK'
  BY <1>1, <1>3 DEF TypeOK
<1> QED BY <1>3, <1>5, <1>8, <1>9 DEF MailboxInv

\* What taking an action back does to rows and receipts.
LEMMA UndoEffect ==
  ASSUME TypeOK, RevisionsCountWrites, NEW a \in Actions, UndoStates(a)
  PROVE  /\ state' \in [Members -> States] /\ version' \in [Members -> Nat] /\ writer' \in [Members -> SUBSET Actions]
         /\ receipt' \in [Actions -> Receipts] /\ RevisionsCountWrites'
         /\ receipt[a].on \in SUBSET Members
         /\ receipt[a].status = "applied" /\ receipt'[a].status = "retracted" /\ receipt'[a].on = receipt[a].on
         /\ \A m \in receipt[a].on : version'[m] = version[m] + 1 /\ writer'[m] = {}
         /\ \A m \in Members \ receipt[a].on : version'[m] = version[m] /\ writer'[m] = writer[m]
         /\ \A b \in Actions : b # a => receipt'[b] = receipt[b]
<1> DEFINE ms == receipt[a].on
           new == [m \in Members |-> Reinstated(a, m)]
<1>1. /\ receipt[a].status = "applied"
      /\ Write(ms, new, {})
      /\ receipt' = [receipt EXCEPT ![a].status = "retracted"]
  BY DEF UndoStates, Retractable
<1>2. /\ state \in [Members -> States] /\ receipt \in [Actions -> Receipts]
      /\ version \in [Members -> Nat] /\ writer \in [Members -> SUBSET Actions]
  BY DEF TypeOK
<1>3. ms \in SUBSET Members /\ receipt[a].before \in [Members -> States]
  BY <1>2 DEF Receipts
<1>4. \A m \in ms : new[m] \in States /\ new[m].revision = state[m].revision + 1
  <2> SUFFICES ASSUME NEW m \in ms PROVE new[m] \in States /\ new[m].revision = state[m].revision + 1
    OBVIOUS
  <2>1. m \in Members /\ receipt[a].before[m] \in States
    BY <1>3
  <2>2. state[m].revision \in Nat
    BY <1>2, <2>1 DEF States
  <2>3. new[m] = [receipt[a].before[m] EXCEPT !.revision = state[m].revision + 1]
    BY <2>1 DEF Reinstated
  <2> HIDE DEF new
  <2> QED BY <2>1, <2>2, <2>3 DEF States
<1> HIDE DEF ms, new
<1>5. /\ state' \in [Members -> States] /\ version' \in [Members -> Nat] /\ writer' \in [Members -> SUBSET Actions]
      /\ RevisionsCountWrites'
  BY <1>1, <1>3, <1>4, WriteKeeps, {} \in SUBSET Actions
<1>6. /\ receipt' \in [Actions -> Receipts]
      /\ receipt'[a].status = "retracted" /\ receipt'[a].on = receipt[a].on
      /\ \A b \in Actions : b # a => receipt'[b] = receipt[b]
  BY <1>1, <1>2 DEF Receipts
<1>7. /\ \A m \in ms : version'[m] = version[m] + 1 /\ writer'[m] = {}
      /\ \A m \in Members \ ms : version'[m] = version[m] /\ writer'[m] = writer[m]
  BY <1>1, <1>3 DEF Write
<1> QED BY <1>1, <1>3, <1>5, <1>6, <1>7 DEF ms

LEMMA UndoInv ==
  ASSUME MailboxInv, NEW a \in Actions, Undo(a)
  PROVE  MailboxInv'
<1>1. /\ TypeOK /\ RevisionsCountWrites /\ ReceiptsAreAnchored /\ UndoStates(a)
      /\ UNCHANGED <<mail, available, clock, command, shown>>
  BY DEF MailboxInv, Undo
<1>2. /\ state' \in [Members -> States] /\ version' \in [Members -> Nat] /\ writer' \in [Members -> SUBSET Actions]
      /\ receipt' \in [Actions -> Receipts] /\ RevisionsCountWrites'
      /\ receipt[a].on \in SUBSET Members /\ receipt'[a].status = "retracted"
      /\ \A b \in Actions : b # a => receipt'[b] = receipt[b]
  BY <1>1, UndoEffect
<1>3. Write(receipt[a].on, [m \in Members |-> Reinstated(a, m)], {})
  BY <1>1 DEF UndoStates
<1>4. /\ CommandsAreAnchored'
      /\ \A b \in Actions : \A m \in receipt[b].on : receipt[b].status = "applied" =>
              /\ receipt[b].saved[m] <= version'[m] + 1
              /\ receipt[b].saved[m] = version'[m] + 1 => writer'[m] = {b}
  BY <1>1, <1>2, <1>3, WriteAnchors
<1>5. TypeOK'
  BY <1>1, <1>2 DEF TypeOK
<1>6. ASSUME NEW b \in Actions, receipt'[b].status = "applied"
      PROVE  receipt'[b] = receipt[b] /\ receipt[b].status = "applied"
  BY <1>2, <1>6
<1>7. ReceiptsAreAnchored'
  BY <1>1, <1>4, <1>6 DEF ReceiptsAreAnchored
<1> QED BY <1>2, <1>4, <1>5, <1>7 DEF MailboxInv

\* Single writes and wakes are writes of well-typed rows under the next revision.
LEMMA OtherWrites ==
  ASSUME TypeOK
  PROVE  \/ \E m \in Members, done \in BOOLEAN, until \in Instants : SetState(m, done, until)
         \/ WakeDue
         => /\ \E ms \in SUBSET Members : \E new :
                 /\ Write(ms, new, {})
                 /\ \A m \in ms : new[m] \in States /\ new[m].revision = state[m].revision + 1
            /\ UNCHANGED <<mail, available, clock, command, receipt, shown>>
<1>1. /\ state \in [Members -> States] /\ \A m \in Members : state[m].revision \in Nat \ {0}
  BY DEF TypeOK, States
<1>2. ASSUME NEW m \in Members, NEW done \in BOOLEAN, NEW until \in Instants, SetState(m, done, until)
      PROVE  /\ \E ms \in SUBSET Members : \E new :
                  /\ Write(ms, new, {})
                  /\ \A n \in ms : new[n] \in States /\ new[n].revision = state[n].revision + 1
             /\ UNCHANGED <<mail, available, clock, command, receipt, shown>>
  <2> DEFINE new == [n \in Members |-> [done |-> done, until |-> until, woke |-> FALSE, revision |-> state[m].revision + 1]]
  <2>1. Write({m}, new, {}) /\ UNCHANGED <<mail, available, clock, command, receipt, shown>>
    BY <1>2 DEF SetState
  <2>2. \A n \in {m} : new[n] \in States /\ new[n].revision = state[n].revision + 1
    <3>1. new[m] = [done |-> done, until |-> until, woke |-> FALSE, revision |-> state[m].revision + 1]
      OBVIOUS
    <3> HIDE DEF new
    <3>2. new[m] \in States
      BY <1>1, <3>1, RowType
    <3> QED BY <3>1, <3>2
  <2> HIDE DEF new
  <2> QED BY <2>1, <2>2, {m} \in SUBSET Members
<1>3. ASSUME WakeDue
      PROVE  /\ \E ms \in SUBSET Members : \E new :
                  /\ Write(ms, new, {})
                  /\ \A n \in ms : new[n] \in States /\ new[n].revision = state[n].revision + 1
             /\ UNCHANGED <<mail, available, clock, command, receipt, shown>>
  <2> DEFINE new == [m \in Members |-> [state[m] EXCEPT !.until = 0, !.woke = TRUE, !.revision = @ + 1]]
  <2>1. Write(DueMembers, new, {}) /\ UNCHANGED <<mail, available, clock, command, receipt, shown>>
    BY <1>3 DEF WakeDue
  <2>2. DueMembers \in SUBSET Members
    BY DEF DueMembers
  <2>3. \A m \in Members : new[m] \in States /\ new[m].revision = state[m].revision + 1
    <3> SUFFICES ASSUME NEW m \in Members PROVE new[m] \in States /\ new[m].revision = state[m].revision + 1
      OBVIOUS
    <3>1. state[m] \in States /\ state[m].revision \in Nat /\ state[m].done \in BOOLEAN
      BY <1>1 DEF States
    <3>2. new[m] = [done |-> state[m].done, until |-> 0, woke |-> TRUE, revision |-> state[m].revision + 1]
      BY <3>1 DEF States
    <3>3. 0 \in Instants
      BY MailboxAssumption DEF Instants
    <3> HIDE DEF new
    <3>4. new[m] \in States
      BY <3>1, <3>2, <3>3, RowType
    <3> QED BY <3>2, <3>4
  <2> HIDE DEF new
  <2> QED BY <2>1, <2>2, <2>3
<1> QED BY <1>2, <1>3

LEMMA OthersInv ==
  ASSUME MailboxInv
  PROVE  \/ \E m \in Members, done \in BOOLEAN, until \in Instants : SetState(m, done, until)
         \/ WakeDue
         => MailboxInv'
<1> SUFFICES ASSUME \/ \E m \in Members, done \in BOOLEAN, until \in Instants : SetState(m, done, until)
                    \/ WakeDue
             PROVE  MailboxInv'
  OBVIOUS
<1>1. TypeOK
  BY DEF MailboxInv
<1>2. PICK ms \in SUBSET Members : \E new :
        /\ Write(ms, new, {})
        /\ \A m \in ms : new[m] \in States /\ new[m].revision = state[m].revision + 1
  BY <1>1, OtherWrites
<1>3. PICK new :
        /\ Write(ms, new, {})
        /\ \A m \in ms : new[m] \in States /\ new[m].revision = state[m].revision + 1
  BY <1>2
<1>4. UNCHANGED <<mail, available, clock, command, receipt, shown>>
  BY <1>1, OtherWrites
<1> QED BY <1>3, <1>4, PlainWriteInv

\* Steps that write no row.
LEMMA QuietInv ==
  ASSUME MailboxInv, UNCHANGED <<rowVars, command, receipt, shown>>,
         mail' \in [Members -> Nat], available' \subseteq Members, clock' \in Instants
  PROVE  MailboxInv'
BY DEF MailboxInv, TypeOK, RevisionsCountWrites, CommandsAreAnchored, ReceiptsAreAnchored, rowVars

\* MailboxInv is inductive.
LEMMA NextInv == MailboxInv /\ [Next]_vars => MailboxInv'
<1> SUFFICES ASSUME MailboxInv, [Next]_vars PROVE MailboxInv'
  OBVIOUS
<1>1. /\ mail \in [Members -> Nat] /\ available \subseteq Members /\ clock \in Instants
  BY DEF MailboxInv, TypeOK
<1>2. ASSUME NEW a \in Actions, NEW ms \in SUBSET Members, NEW done \in Marks, NEW until \in Instants,
             NEW checked \in BOOLEAN, Compose(a, ms, done, until, checked)
      PROVE  MailboxInv'
  BY <1>2, ComposeInv
<1>3. ASSUME NEW a \in Actions, Apply(a) \/ Undo(a) PROVE MailboxInv'
  BY <1>3, PerformInv, UndoInv
<1>4. ASSUME NEW m \in Members, NEW done \in BOOLEAN, NEW until \in Instants, SetState(m, done, until)
      PROVE  MailboxInv'
  BY <1>4, OthersInv
<1>5. ASSUME NEW m \in Members, MailChanges(m) PROVE MailboxInv'
  <2>1. mail' \in [Members -> Nat]
    BY <1>1, <1>5 DEF MailChanges
  <2> QED BY <1>1, <1>5, <2>1, QuietInv DEF MailChanges
<1>6. ASSUME NEW m \in Members, Vanishes(m) \/ Returns(m) PROVE MailboxInv'
  <2>1. available' \subseteq Members /\ UNCHANGED <<rowVars, mail, clock, command, receipt, shown>>
    BY <1>1, <1>6 DEF Vanishes, Returns
  <2> QED BY <1>1, <2>1, QuietInv
<1>7. CASE WakeDue
  BY <1>7, OthersInv
<1>8. CASE Tick
  <2>1. clock' \in Instants
    BY <1>1, <1>8, MailboxAssumption DEF Tick, Instants
  <2> QED BY <1>1, <1>8, <2>1, QuietInv DEF Tick
<1>9. CASE UNCHANGED vars
  BY <1>1, <1>9, QuietInv DEF vars
<1> QED BY <1>2, <1>3, <1>4, <1>5, <1>6, <1>7, <1>8, <1>9 DEF Next

\* Every state the code reaches is well typed, its revisions count writes, and what clients and
\* receipts hold is anchored to them (all handlers of the mailbox actions).
THEOREM MailboxInvariant == Spec => []MailboxInv
<1>1. Init => MailboxInv
  BY InitInv
<1>2. MailboxInv /\ [Next]_vars => MailboxInv'
  BY NextInv
<1> QED BY <1>1, <1>2, PTL DEF Spec

\* The rows stay well typed; in particular every revision is one a client may send back.
THEOREM Typing == Spec => []TypeOK
<1>1. MailboxInv => TypeOK
  BY DEF MailboxInv
<1> QED BY <1>1, MailboxInvariant, PTL

\* Which steps change the status of a receipt.
LEMMA StatusSteps ==
  ASSUME MailboxInv, [Next]_vars, NEW a \in Actions
  PROVE  /\ JustApplied(a) => Apply(a)
         /\ JustRetracted(a) => Undo(a)
<1>1. receipt \in [Actions -> Receipts]
  BY DEF MailboxInv, TypeOK
<1>2. ASSUME NEW b \in Actions, Apply(b), a # b PROVE receipt'[a] = receipt[a]
  BY <1>1, <1>2 DEF Apply, Perform
<1>3. ASSUME NEW b \in Actions, Undo(b), a # b PROVE receipt'[a] = receipt[a]
  BY <1>1, <1>3 DEF Undo, UndoStates
<1>4. Apply(a) => receipt[a].status = "none"
  BY DEF Apply, Perform
<1>5. Undo(a) => receipt[a].status = "applied" /\ receipt'[a].status = "retracted"
  BY <1>1 DEF Undo, UndoStates, Retractable, Receipts
<1>6. Apply(a) => receipt'[a].status = "applied"
  BY <1>1 DEF Apply, Perform
<1>7. \/ \E b \in Actions : Apply(b) \/ Undo(b)
      \/ receipt' = receipt
  BY DEF Next, Compose, SetState, MailChanges, Vanishes, Returns, WakeDue, Tick, vars
<1> QED BY <1>2, <1>3, <1>4, <1>5, <1>6, <1>7 DEF JustApplied, JustRetracted

\* No write that came between a client's read and its action is lost (setMailboxStates).
THEOREM NoWriteIsLost == Spec => WritesSeeTheLatest
<1>1. ASSUME MailboxInv, [Next]_vars, NEW a \in Actions, JustApplied(a), NEW m \in command[a].on
      PROVE  version[m] = shown[a][m].version
  <2>1. Apply(a)
    BY <1>1, StatusSteps
  <2>2. m \in Members /\ state[m].revision = command[a].revision[m]
    BY <1>1, <2>1 DEF Apply, Perform, UpToDate, MailboxInv, TypeOK, Commands
  <2>3. /\ command[a].revision[m] = shown[a][m].version + 1
        /\ state[m].revision = version[m] + 1
        /\ version[m] \in Nat /\ shown[a][m].version \in Nat
    BY <1>1, <2>2 DEF MailboxInv, CommandsAreAnchored, RevisionsCountWrites, TypeOK
  <2> QED BY <2>2, <2>3
<1>2. MailboxInv /\ [Next]_vars
        => [\A a \in Actions : JustApplied(a) => \A m \in command[a].on : version[m] = shown[a][m].version]_vars
  BY <1>1
<1> QED BY <1>2, MailboxInvariant, PTL DEF Spec, WritesSeeTheLatest

\* Undo only takes back what still stands as the action left it (undoMailboxStates).
THEOREM UndoIsGuarded == Spec => UndoOverwritesNothing
<1>1. ASSUME MailboxInv, [Next]_vars, NEW a \in Actions, JustRetracted(a), NEW m \in receipt[a].on
      PROVE  writer[m] = {a}
  <2>1. Undo(a)
    BY <1>1, StatusSteps
  <2>2. receipt[a].status = "applied" /\ state[m].revision = receipt[a].saved[m] /\ m \in Members
    BY <1>1, <2>1 DEF Undo, UndoStates, Retractable, MailboxInv, TypeOK, Receipts
  <2>3. /\ state[m].revision = version[m] + 1
        /\ receipt[a].saved[m] = version[m] + 1 => writer[m] = {a}
    BY <1>1, <2>2 DEF MailboxInv, RevisionsCountWrites, ReceiptsAreAnchored
  <2> QED BY <2>2, <2>3
<1>2. MailboxInv /\ [Next]_vars
        => [\A a \in Actions : JustRetracted(a) => \A m \in receipt[a].on : writer[m] = {a}]_vars
  BY <1>1
<1> QED BY <1>2, MailboxInvariant, PTL DEF Spec, UndoOverwritesNothing

\* Undo shows the client what it was looking at when it composed the action (undoMailboxStates).
THEOREM UndoIsFaithful == Spec => UndoShowsTheOriginal
<1>1. ASSUME MailboxInv, [Next]_vars, NEW a \in Actions, JustRetracted(a), NEW m \in receipt[a].on
      PROVE  [state'[m] EXCEPT !.revision = 0] = [shown[a][m].state EXCEPT !.revision = 0]
  <2>1. Undo(a)
    BY <1>1, StatusSteps
  <2>2. m \in Members /\ receipt[a].status = "applied" /\ receipt[a].before[m] \in States
    BY <1>1, <2>1 DEF Undo, UndoStates, Retractable, MailboxInv, TypeOK, Receipts
  <2>3. receipt[a].before[m] = shown[a][m].state
    BY <1>1, <2>2 DEF MailboxInv, ReceiptsAreAnchored
  <2>4. state'[m] = Reinstated(a, m)
    BY <2>1, <2>2 DEF Undo, UndoStates, Write
  <2> QED BY <2>2, <2>3, <2>4 DEF Reinstated, States
<1>2. MailboxInv /\ [Next]_vars
        => [\A a \in Actions : JustRetracted(a) =>
              \A m \in receipt[a].on : [state'[m] EXCEPT !.revision = 0] = [shown[a][m].state EXCEPT !.revision = 0]]_vars
  BY <1>1
<1> QED BY <1>2, MailboxInvariant, PTL DEF Spec, UndoShowsTheOriginal

(***************************************************************************)
(* The sweep.  A preview's targets carry the revisions of the writes they  *)
(* were read at (PreviewIsAnchored).  The conversations of a preview are   *)
(* divided between those to send, those of a refused batch, those counted  *)
(* and those skipped (JobAddsUp), and each call that is accepted takes the *)
(* next receipt number and at least one conversation, so that the numbers  *)
(* stay within the conversations and no receipt is used twice              *)
(* (ReceiptsAddUp).  A receipt an undo has gone past no longer stands      *)
(* (RunFollows).                                                           *)
(***************************************************************************)
ReceiptsStand ==
  \A a \in Actions :
    /\ receipt[a].status = "none" => receipt[a].on = {} /\ \A m \in Members : writer[m] # {a}
    /\ receipt[a].status = "applied" =>
         /\ receipt[a].on # {}
         /\ \A m \in receipt[a].on : /\ receipt[a].saved[m] <= version[m] + 1
                                     /\ writer[m] = {a} <=> receipt[a].saved[m] = version[m] + 1

RowsInv == TypeOK /\ RevisionsCountWrites /\ (\A m \in Members : mail[m] # 0) /\ ReceiptsStand

PreviewIsAnchored(s) ==
  \A c \in Threads : /\ preview[s][c].on \subseteq MembersOf(c)
                     /\ \A m \in preview[s][c].on : /\ preview[s][c].revision[m] = preview[s][c].version[m] + 1
                                                    /\ preview[s][c].mail[m] # 0

JobAddsUp(s) ==
  /\ {c \in Threads : preview[s][c].on # {}} = job[s].todo \cup job[s].batch \cup job[s].counted \cup job[s].skipped
  /\ job[s].todo \cap (job[s].batch \cup job[s].counted \cup job[s].skipped) = {}
  /\ job[s].batch \cap (job[s].counted \cup job[s].skipped) = {}
  /\ job[s].counted \cap job[s].skipped = {}
  /\ job[s].phase = "none" => \A c \in Threads : preview[s][c].on = {}
  /\ job[s].phase \in {"previewed", "batches"} => job[s].batch = {}
  /\ job[s].receipts <= Cardinality(job[s].counted)

ReceiptsAddUp(s) ==
  /\ \A n \in Threads : receipt[Receipt(s, n)].status = "none" <=> n > job[s].receipts
  /\ \A n \in Threads : \E cs \in SUBSET Threads : receipt[Receipt(s, n)].on = Targets(s, cs)
  /\ UNION {receipt[Receipt(s, n)].on : n \in Threads} = Targets(s, job[s].counted)

\* A receipt that no undo can take back: written since, or a member was gone when undo came to it.
Passed(s, n) == \E m \in receipt[Receipt(s, n)].on : writer[m] # {Receipt(s, n)} \/ m \in gone[s]

RunFollows(s) ==
  /\ run[s].status = "none" => undoing[s] = 0
  /\ run[s].status # "none" =>
       /\ job[s].phase = "over" /\ job[s].todo = {} /\ job[s].batch = {}
       /\ run[s].receipts = job[s].receipts /\ run[s].counted = job[s].counted /\ run[s].skipped = job[s].skipped
       /\ undoing[s] <= run[s].receipts + 1
  /\ run[s].status = "undone" => undoing[s] = 0
  /\ \A n \in Threads : /\ receipt[Receipt(s, n)].status = "applied"
                        /\ n < undoing[s] \/ run[s].status = "undone"
                        => Passed(s, n)

SweepInv ==
  /\ SweepTypeOK
  /\ RowsInv
  /\ \A s \in Sweeps : PreviewIsAnchored(s) /\ JobAddsUp(s) /\ ReceiptsAddUp(s) /\ RunFollows(s)

\* What a step leaves of an action it does not apply.
Calm(a) ==
  /\ receipt'[a].on = receipt[a].on
  /\ receipt'[a].status = "none" <=> receipt[a].status = "none"
  /\ receipt'[a].status = "applied" =>
       receipt[a].status = "applied" /\ \A m \in Members : writer[m] # {a} => writer'[m] # {a}

----------------------------------------------------------------------------
(* The constants. *)

LEMMA ThreadsFinite ==
  /\ Threads = 1..Len(Order) /\ Len(Order) \in Nat
  /\ IsFiniteSet(Threads) /\ Cardinality(Threads) = Len(Order)
  /\ \A cs \in SUBSET Threads : IsFiniteSet(cs) /\ Cardinality(cs) \in Nat /\ Cardinality(cs) <= Len(Order)
<1>1. Threads = 1..Len(Order) /\ Len(Order) \in Nat
  BY SweepAssumption DEF Threads
<1>2. IsFiniteSet(Threads) /\ Cardinality(Threads) = Len(Order)
  <2>1. 1 \in Int /\ Len(Order) \in Int
    BY <1>1
  <2>2. IsFiniteSet(1..Len(Order)) /\ Cardinality(1..Len(Order)) = IF 1 > Len(Order) THEN 0 ELSE Len(Order) - 1 + 1
    BY <2>1, FS_Interval
  <2> QED BY <1>1, <2>2
<1> QED BY <1>1, <1>2, FS_Subset, FS_CardinalityType

LEMMA MembersOfThreads ==
  /\ \A c \in Threads : MembersOf(c) \subseteq Members
  /\ \A c, d \in Threads : c # d => MembersOf(c) \cap MembersOf(d) = {}
<1>1. \A c \in Threads : Order[c] \in Seq(Members)
  BY SweepAssumption DEF Threads
<1>2. \A c \in Threads : \A i \in DOMAIN Order[c] : Order[c][i] \in Members
  BY <1>1
<1> QED BY <1>2, SweepAssumption DEF MembersOf, ToSet

LEMMA ReceiptIds ==
  /\ \A s \in Sweeps, n \in Threads : Receipt(s, n) \in Actions
  /\ \A s, t \in Sweeps, n, k \in Threads : Receipt(s, n) = Receipt(t, k) => s = t /\ n = k
BY SweepAssumption DEF Receipt

\* A conversation that is counted anew leaves room for one more receipt.
LEMMA CountedGrows ==
  ASSUME NEW counted \in SUBSET Threads, NEW cs \in SUBSET Threads, cs # {}, cs \cap counted = {}
  PROVE  Cardinality(counted) + 1 <= Cardinality(counted \cup cs)
<1>1. PICK c \in cs : TRUE
  OBVIOUS
<1>2. counted \cup cs \in SUBSET Threads /\ counted \cup {c} \in SUBSET (counted \cup cs)
  OBVIOUS
<1>3. IsFiniteSet(counted) /\ IsFiniteSet(counted \cup cs) /\ Cardinality(counted) \in Nat
  BY <1>2, ThreadsFinite
<1>4. Cardinality(counted \cup {c}) = Cardinality(counted) + 1
  BY <1>1, <1>3, FS_AddElement
<1>5. Cardinality(counted \cup {c}) <= Cardinality(counted \cup cs)
  BY <1>2, <1>3, FS_Subset
<1> QED BY <1>4, <1>5

----------------------------------------------------------------------------
(* Rows and receipts. *)

LEMMA RowsPerform ==
  ASSUME RowsInv, NEW a \in Actions, NEW c, c.on \in SUBSET Members, c.until \in Instants, Perform(a, c),
         UNCHANGED <<mail, available, clock, command, shown>>
  PROVE  /\ RowsInv'
         /\ receipt[a].status = "none" /\ receipt'[a].status = "applied" /\ receipt'[a].on = c.on
         /\ \A b \in Actions : b # a => Calm(b)
<1>1. TypeOK /\ RevisionsCountWrites /\ ReceiptsStand /\ \A m \in Members : mail[m] # 0
  BY DEF RowsInv
<1>2. /\ state' \in [Members -> States] /\ version' \in [Members -> Nat] /\ writer' \in [Members -> SUBSET Actions]
      /\ receipt' \in [Actions -> Receipts] /\ RevisionsCountWrites'
      /\ receipt'[a].status = "applied" /\ receipt'[a].on = c.on
      /\ \A m \in c.on : /\ receipt'[a].saved[m] = version'[m] + 1
                         /\ version'[m] = version[m] + 1 /\ writer'[m] = {a}
      /\ \A m \in Members \ c.on : version'[m] = version[m] /\ writer'[m] = writer[m]
      /\ \A b \in Actions : b # a => receipt'[b] = receipt[b]
  BY <1>1, PerformEffect
<1>3. receipt[a].status = "none" /\ c.on # {}
  BY DEF Perform
<1>4. TypeOK'
  BY <1>1, <1>2 DEF TypeOK
<1>5. ASSUME NEW b \in Actions, b # a PROVE Calm(b)
  BY <1>2, <1>5 DEF Calm
<1>6. ASSUME NEW b \in Actions
      PROVE  /\ receipt'[b].status = "none" => receipt'[b].on = {} /\ \A m \in Members : writer'[m] # {b}
             /\ receipt'[b].status = "applied" =>
                  /\ receipt'[b].on # {}
                  /\ \A m \in receipt'[b].on : /\ receipt'[b].saved[m] <= version'[m] + 1
                                               /\ writer'[m] = {b} <=> receipt'[b].saved[m] = version'[m] + 1
  <2>1. CASE b = a
    <3>1. \A m \in c.on : version'[m] \in Nat
      BY <1>2
    <3> QED BY <2>1, <3>1, <1>2, <1>3
  <2>2. CASE b # a
    <3>1. receipt'[b] = receipt[b] /\ receipt[b].on \subseteq Members /\ receipt[b].saved \in [Members -> Nat]
      BY <2>2, <1>1, <1>2 DEF TypeOK, Receipts
    <3>2. /\ receipt[b].status = "none" => receipt[b].on = {} /\ \A m \in Members : writer[m] # {b}
          /\ receipt[b].status = "applied" =>
               /\ receipt[b].on # {}
               /\ \A m \in receipt[b].on : /\ receipt[b].saved[m] <= version[m] + 1
                                           /\ writer[m] = {b} <=> receipt[b].saved[m] = version[m] + 1
      BY <1>1 DEF ReceiptsStand
    <3>3. \A m \in Members : version[m] \in Nat /\ receipt[b].saved[m] \in Nat
      BY <1>1, <3>1 DEF TypeOK
    <3>4. \A m \in Members : \/ version'[m] = version[m] /\ writer'[m] = writer[m]
                             \/ version'[m] = version[m] + 1 /\ writer'[m] # {b}
      BY <2>2, <1>2
    <3>5. receipt[b].status = "none" => \A m \in Members : writer'[m] # {b}
      BY <3>2, <3>4
    <3>6. ASSUME receipt[b].status = "applied", NEW m \in receipt[b].on
          PROVE  /\ receipt[b].saved[m] <= version'[m] + 1
                 /\ writer'[m] = {b} <=> receipt[b].saved[m] = version'[m] + 1
      BY <3>1, <3>2, <3>3, <3>4, <3>6
    <3> QED BY <3>1, <3>2, <3>5, <3>6
  <2> QED BY <2>1, <2>2
<1>7. ReceiptsStand'
  BY <1>6 DEF ReceiptsStand
<1>8. \A m \in Members : mail'[m] # 0
  BY <1>1
<1> QED BY <1>2, <1>3, <1>4, <1>5, <1>7, <1>8 DEF RowsInv

\* A write by nobody's action leaves every receipt where it was.
LEMMA RowsWritten ==
  ASSUME RowsInv, TypeOK', RevisionsCountWrites', \A m \in Members : mail'[m] # 0,
         \A m \in Members : \/ version'[m] = version[m] /\ writer'[m] = writer[m]
                            \/ version'[m] = version[m] + 1 /\ writer'[m] = {},
         \A a \in Actions : \/ receipt'[a] = receipt[a]
                            \/ /\ receipt[a].status = "applied" /\ receipt'[a].status = "retracted"
                               /\ receipt'[a].on = receipt[a].on
  PROVE  RowsInv' /\ \A a \in Actions : Calm(a)
<1>1. TypeOK /\ ReceiptsStand
  BY DEF RowsInv
<1>2. ASSUME NEW b \in Actions PROVE Calm(b)
  BY DEF Calm
<1>3. ASSUME NEW b \in Actions
      PROVE  /\ receipt'[b].status = "none" => receipt'[b].on = {} /\ \A m \in Members : writer'[m] # {b}
             /\ receipt'[b].status = "applied" =>
                  /\ receipt'[b].on # {}
                  /\ \A m \in receipt'[b].on : /\ receipt'[b].saved[m] <= version'[m] + 1
                                               /\ writer'[m] = {b} <=> receipt'[b].saved[m] = version'[m] + 1
  <2>1. CASE receipt'[b] = receipt[b]
    <3>1. receipt[b].on \subseteq Members /\ receipt[b].saved \in [Members -> Nat]
      BY <1>1 DEF TypeOK, Receipts
    <3>2. /\ receipt[b].status = "none" => receipt[b].on = {} /\ \A m \in Members : writer[m] # {b}
          /\ receipt[b].status = "applied" =>
               /\ receipt[b].on # {}
               /\ \A m \in receipt[b].on : /\ receipt[b].saved[m] <= version[m] + 1
                                           /\ writer[m] = {b} <=> receipt[b].saved[m] = version[m] + 1
      BY <1>1 DEF ReceiptsStand
    <3>3. \A m \in Members : version[m] \in Nat /\ receipt[b].saved[m] \in Nat
      BY <1>1, <3>1 DEF TypeOK
    <3>4. \A m \in Members : \/ version'[m] = version[m] /\ writer'[m] = writer[m]
                             \/ version'[m] = version[m] + 1 /\ writer'[m] # {b}
      OBVIOUS
    <3>5. receipt[b].status = "none" => \A m \in Members : writer'[m] # {b}
      BY <3>2, <3>4
    <3>6. ASSUME receipt[b].status = "applied", NEW m \in receipt[b].on
          PROVE  /\ receipt[b].saved[m] <= version'[m] + 1
                 /\ writer'[m] = {b} <=> receipt[b].saved[m] = version'[m] + 1
      BY <3>1, <3>2, <3>3, <3>4, <3>6
    <3> QED BY <2>1, <3>1, <3>2, <3>5, <3>6
  <2>2. CASE receipt'[b].status = "retracted"
    BY <2>2
  <2> QED BY <2>1, <2>2
<1>4. ReceiptsStand'
  BY <1>3 DEF ReceiptsStand
<1> QED BY <1>2, <1>4 DEF RowsInv

LEMMA RowsUndo ==
  ASSUME RowsInv, NEW a \in Actions, UndoStates(a), UNCHANGED <<mail, available, clock, command, shown>>
  PROVE  RowsInv' /\ receipt'[a].status = "retracted" /\ \A b \in Actions : Calm(b)
<1>1. TypeOK /\ RevisionsCountWrites /\ \A m \in Members : mail[m] # 0
  BY DEF RowsInv
<1>2. /\ state' \in [Members -> States] /\ version' \in [Members -> Nat] /\ writer' \in [Members -> SUBSET Actions]
      /\ receipt' \in [Actions -> Receipts] /\ RevisionsCountWrites'
      /\ receipt[a].status = "applied" /\ receipt'[a].status = "retracted" /\ receipt'[a].on = receipt[a].on
      /\ \A m \in receipt[a].on : version'[m] = version[m] + 1 /\ writer'[m] = {}
      /\ \A m \in Members \ receipt[a].on : version'[m] = version[m] /\ writer'[m] = writer[m]
      /\ \A b \in Actions : b # a => receipt'[b] = receipt[b]
  BY <1>1, UndoEffect
<1>3. TypeOK' /\ \A m \in Members : mail'[m] # 0
  BY <1>1, <1>2 DEF TypeOK
<1>4. \A m \in Members : \/ version'[m] = version[m] /\ writer'[m] = writer[m]
                         \/ version'[m] = version[m] + 1 /\ writer'[m] = {}
  BY <1>2
<1>5. \A b \in Actions : \/ receipt'[b] = receipt[b]
                         \/ /\ receipt[b].status = "applied" /\ receipt'[b].status = "retracted"
                            /\ receipt'[b].on = receipt[b].on
  BY <1>2
<1> QED BY <1>2, <1>3, <1>4, <1>5, RowsWritten

LEMMA RowsQuiet ==
  ASSUME RowsInv, UNCHANGED <<rowVars, command, receipt, shown>>,
         mail' \in [Members -> Nat], available' \subseteq Members, clock' \in Instants, \A m \in Members : mail'[m] # 0
  PROVE  RowsInv' /\ \A a \in Actions : Calm(a)
<1>1. TypeOK' /\ RevisionsCountWrites'
  BY DEF RowsInv, TypeOK, RevisionsCountWrites, rowVars
<1> QED BY <1>1, RowsWritten DEF rowVars

\* Other clients, mail, reminders and time.
LEMMA RowsOthers ==
  ASSUME RowsInv, Others
  PROVE  RowsInv' /\ \A a \in Actions : Calm(a)
<1>1. /\ TypeOK /\ RevisionsCountWrites /\ \A m \in Members : mail[m] # 0
      /\ mail \in [Members -> Nat] /\ available \subseteq Members /\ clock \in Instants
  BY DEF RowsInv, TypeOK
<1>2. Shared \subseteq Members
  BY SweepAssumption
<1>3. CASE \/ \E m \in Members, done \in BOOLEAN, until \in Instants : SetState(m, done, until)
           \/ WakeDue
  <2>1. PICK ms \in SUBSET Members : \E new :
          /\ Write(ms, new, {})
          /\ \A m \in ms : new[m] \in States /\ new[m].revision = state[m].revision + 1
    BY <1>1, <1>3, OtherWrites
  <2>2. PICK new :
          /\ Write(ms, new, {})
          /\ \A m \in ms : new[m] \in States /\ new[m].revision = state[m].revision + 1
    BY <2>1
  <2>3. UNCHANGED <<mail, available, clock, command, receipt, shown>>
    BY <1>1, <1>3, OtherWrites
  <2>4. /\ state' \in [Members -> States] /\ version' \in [Members -> Nat] /\ writer' \in [Members -> SUBSET Actions]
        /\ RevisionsCountWrites'
    BY <1>1, <2>2, WriteKeeps, {} \in SUBSET Actions
  <2>5. TypeOK' /\ \A m \in Members : mail'[m] # 0
    BY <1>1, <2>3, <2>4 DEF TypeOK
  <2>6. \A m \in Members : \/ version'[m] = version[m] /\ writer'[m] = writer[m]
                           \/ version'[m] = version[m] + 1 /\ writer'[m] = {}
    BY <2>2 DEF Write
  <2> QED BY <2>3, <2>4, <2>5, <2>6, RowsWritten
<1>4. ASSUME NEW m \in Members, MailChanges(m) PROVE RowsInv' /\ \A a \in Actions : Calm(a)
  <2>1. mail' \in [Members -> Nat] /\ \A n \in Members : mail'[n] # 0
    BY <1>1, <1>4 DEF MailChanges
  <2> QED BY <1>1, <1>4, <2>1, RowsQuiet DEF MailChanges
<1>5. ASSUME NEW m \in Members, Vanishes(m) \/ Returns(m) PROVE RowsInv' /\ \A a \in Actions : Calm(a)
  <2>1. available' \subseteq Members /\ UNCHANGED <<rowVars, mail, clock, command, receipt, shown>>
    BY <1>1, <1>5 DEF Vanishes, Returns
  <2> QED BY <1>1, <2>1, RowsQuiet
<1>6. CASE Tick
  <2>1. clock' \in Instants
    BY <1>1, <1>6, MailboxAssumption DEF Tick, Instants
  <2> QED BY <1>1, <1>6, <2>1, RowsQuiet DEF Tick
<1> QED BY <1>2, <1>3, <1>4, <1>5, <1>6 DEF Others

\* Another client's action changes no receipt of a sweep.
LEMMA RowsClient ==
  ASSUME RowsInv, Client
  PROVE  RowsInv' /\ \A s \in Sweeps, n \in Threads : Calm(Receipt(s, n))
<1>1. /\ TypeOK /\ RevisionsCountWrites /\ \A m \in Members : mail[m] # 0
      /\ mail \in [Members -> Nat] /\ available \subseteq Members /\ clock \in Instants
  BY DEF RowsInv, TypeOK
<1>2. \A a \in Clients : a \in Actions /\ \A s \in Sweeps, n \in Threads : Receipt(s, n) # a
  BY DEF Clients, Receipt
<1>3. ASSUME NEW a \in Clients, NEW ms \in SUBSET Shared, NEW c \in Asked, Compose(a, ms, c.done, c.until, c.checked)
      PROVE  RowsInv' /\ \A b \in Actions : Calm(b)
  <2>1. UNCHANGED <<rowVars, mail, available, clock, receipt>>
    BY <1>3 DEF Compose
  <2>2. a \in Actions /\ ms \in SUBSET Members /\ c.done \in Marks /\ c.until \in Instants /\ c.checked \in BOOLEAN
    BY <1>2, SweepAssumption
  <2>3. command' \in [Actions -> Commands] /\ shown' \in [Actions -> [Members -> [state : States, version : Nat]]]
    BY <1>1, <1>3, <2>2, ComposeType
  <2>4. TypeOK' /\ RevisionsCountWrites'
    BY <1>1, <2>1, <2>3 DEF TypeOK, RevisionsCountWrites, rowVars
  <2> QED BY <1>1, <2>1, <2>4, RowsWritten DEF rowVars
<1>4. ASSUME NEW a \in Clients, Apply(a)
      PROVE  RowsInv' /\ \A b \in Actions : b # a => Calm(b)
  <2>1. a \in Actions /\ command[a] \in Commands
    BY <1>1, <1>2 DEF TypeOK
  <2>2. command[a].on \in SUBSET Members /\ command[a].until \in Instants
    BY <2>1 DEF Commands
  <2>3. Perform(a, command[a]) /\ UNCHANGED <<mail, available, clock, command, shown>>
    BY <1>4 DEF Apply
  <2> QED BY <2>1, <2>2, <2>3, RowsPerform
<1>5. ASSUME NEW a \in Clients, Undo(a)
      PROVE  RowsInv' /\ \A b \in Actions : Calm(b)
  BY <1>2, <1>5, RowsUndo DEF Undo
<1> QED BY <1>2, <1>3, <1>4, <1>5, ReceiptIds DEF Client

----------------------------------------------------------------------------
(* Sweeps. *)

\* Steps that leave a sweep's preview, apply and receipts alone.
LEMMA JobFrame ==
  ASSUME NEW s \in Sweeps, PreviewIsAnchored(s), JobAddsUp(s), ReceiptsAddUp(s),
         preview'[s] = preview[s], job'[s] = job[s], \A n \in Threads : Calm(Receipt(s, n))
  PROVE  PreviewIsAnchored(s)' /\ JobAddsUp(s)' /\ ReceiptsAddUp(s)'
<1>1. PreviewIsAnchored(s)'
  BY DEF PreviewIsAnchored
<1>2. JobAddsUp(s)'
  BY DEF JobAddsUp
<1>3. \A cs : Targets(s, cs)' = Targets(s, cs)
  BY DEF Targets
<1>4. \A n \in Threads : /\ receipt'[Receipt(s, n)].on = receipt[Receipt(s, n)].on
                         /\ receipt'[Receipt(s, n)].status = "none" <=> receipt[Receipt(s, n)].status = "none"
  BY DEF Calm
<1>5. ReceiptsAddUp(s)'
  <2>1. \A n \in Threads : receipt'[Receipt(s, n)].status = "none" <=> n > job'[s].receipts
    BY <1>4 DEF ReceiptsAddUp
  <2>2. \A n \in Threads : \E cs \in SUBSET Threads : receipt'[Receipt(s, n)].on = Targets(s, cs)'
    BY <1>3, <1>4 DEF ReceiptsAddUp
  <2>3. UNION {receipt'[Receipt(s, n)].on : n \in Threads} = UNION {receipt[Receipt(s, n)].on : n \in Threads}
    BY <1>4
  <2>4. Targets(s, job[s].counted)' = Targets(s, job[s].counted)
    BY DEF Targets
  <2>5. UNION {receipt'[Receipt(s, n)].on : n \in Threads} = Targets(s, job[s].counted)'
    BY <2>3, <2>4 DEF ReceiptsAddUp
  <2> QED BY <2>1, <2>2, <2>5 DEF ReceiptsAddUp, Receipt
<1> QED BY <1>1, <1>2, <1>5

\* What an undo has gone past stays past.
LEMMA PassedStays ==
  ASSUME NEW s \in Sweeps, NEW n \in Threads, Calm(Receipt(s, n)), Passed(s, n), gone[s] \subseteq gone'[s],
         receipt[Receipt(s, n)].on \subseteq Members, receipt'[Receipt(s, n)].status = "applied"
  PROVE  Passed(s, n)'
BY DEF Calm, Passed, Receipt

LEMMA SweepFrame ==
  ASSUME SweepInv, NEW s \in Sweeps, preview'[s] = preview[s], job'[s] = job[s], run'[s] = run[s],
         undoing'[s] = undoing[s], gone'[s] = gone[s], \A n \in Threads : Calm(Receipt(s, n))
  PROVE  PreviewIsAnchored(s)' /\ JobAddsUp(s)' /\ ReceiptsAddUp(s)' /\ RunFollows(s)'
<1>1. PreviewIsAnchored(s) /\ JobAddsUp(s) /\ ReceiptsAddUp(s) /\ RunFollows(s)
  BY DEF SweepInv
<1>2. PreviewIsAnchored(s)' /\ JobAddsUp(s)' /\ ReceiptsAddUp(s)'
  BY <1>1, JobFrame
<1>3. ASSUME NEW n \in Threads, receipt'[Receipt(s, n)].status = "applied",
             n < undoing[s] \/ run[s].status = "undone"
      PROVE  Passed(s, n)'
  <2>1. receipt[Receipt(s, n)].status = "applied" /\ Receipt(s, n) \in Actions
    BY <1>3, ReceiptIds DEF Calm
  <2>2. Passed(s, n)
    BY <1>1, <1>3, <2>1 DEF RunFollows
  <2>3. receipt[Receipt(s, n)].on \subseteq Members
    BY <2>1 DEF SweepInv, RowsInv, TypeOK, Receipts
  <2> QED BY <1>3, <2>2, <2>3, PassedStays
<1>4. RunFollows(s)'
  BY <1>1, <1>3 DEF RunFollows, Receipt
<1> QED BY <1>2, <1>4

LEMMA OthersSweep ==
  ASSUME SweepInv, Others
  PROVE  SweepInv'
<1>1. RowsInv' /\ \A a \in Actions : Calm(a)
  BY RowsOthers DEF SweepInv
<1>2. UNCHANGED zeroVars
  BY DEF Others
<1>3. SweepTypeOK'
  BY <1>1, <1>2 DEF SweepInv, SweepTypeOK, RowsInv, zeroVars
<1>4. ASSUME NEW s \in Sweeps
      PROVE  PreviewIsAnchored(s)' /\ JobAddsUp(s)' /\ ReceiptsAddUp(s)' /\ RunFollows(s)'
  BY <1>1, <1>2, ReceiptIds, SweepFrame DEF zeroVars
<1> QED BY <1>1, <1>3, <1>4 DEF SweepInv

LEMMA ClientSweep ==
  ASSUME SweepInv, Client
  PROVE  SweepInv'
<1>1. RowsInv' /\ \A s \in Sweeps, n \in Threads : Calm(Receipt(s, n))
  BY RowsClient DEF SweepInv
<1>2. UNCHANGED zeroVars
  BY DEF Client
<1>3. SweepTypeOK'
  BY <1>1, <1>2 DEF SweepInv, SweepTypeOK, RowsInv, zeroVars
<1>4. ASSUME NEW s \in Sweeps
      PROVE  PreviewIsAnchored(s)' /\ JobAddsUp(s)' /\ ReceiptsAddUp(s)' /\ RunFollows(s)'
  BY <1>1, <1>2, SweepFrame DEF zeroVars
<1> QED BY <1>1, <1>3, <1>4 DEF SweepInv

LEMMA InitSweep == SweepInit => SweepInv
<1> SUFFICES ASSUME SweepInit PROVE SweepInv
  OBVIOUS
<1>1. TypeOK /\ RevisionsCountWrites
  BY InitInv DEF SweepInit, MailboxInv
<1>2. RowsInv
  BY <1>1 DEF RowsInv, SweepInit, Init, ReceiptsStand, NoReceipt
<1>3. NoCapture \in Captured
  BY DEF NoCapture, Captured, NoCommand
<1>4. NoJob \in Jobs /\ NoRun \in Runs
  <2>1. 0 \in 0..Len(Order)
    BY ThreadsFinite
  <2> QED BY <2>1 DEF NoJob, NoRun, Jobs, Runs
<1>5. SweepTypeOK
  <2>1. 0 \in 0..Len(Order) + 1
    BY ThreadsFinite
  <2> QED BY <1>1, <1>3, <1>4, <2>1 DEF SweepInit, SweepTypeOK
<1>6. ASSUME NEW s \in Sweeps
      PROVE  PreviewIsAnchored(s) /\ JobAddsUp(s) /\ ReceiptsAddUp(s) /\ RunFollows(s)
  <2>1. /\ \A c \in Threads : preview[s][c].on = {}
        /\ job[s] = NoJob /\ run[s] = NoRun /\ undoing[s] = 0
        /\ \A n \in Threads : receipt[Receipt(s, n)].status = "none" /\ receipt[Receipt(s, n)].on = {}
    BY ReceiptIds DEF SweepInit, Init, NoReceipt, NoCapture
  <2>2. PreviewIsAnchored(s)
    BY <2>1 DEF PreviewIsAnchored
  <2>3. JobAddsUp(s)
    BY <2>1, FS_EmptySet DEF JobAddsUp, NoJob
  <2>4. ReceiptsAddUp(s)
    <3>1. Targets(s, {}) = {}
      BY DEF Targets
    <3>2. \A n \in Threads : n > 0
      BY ThreadsFinite
    <3>3. UNION {receipt[Receipt(s, n)].on : n \in Threads} = {}
      BY <2>1
    <3>4. job[s].receipts = 0 /\ job[s].counted = {}
      BY <2>1 DEF NoJob
    <3>5. \A n \in Threads : \E cs \in SUBSET Threads : receipt[Receipt(s, n)].on = Targets(s, cs)
      BY <2>1, <3>1, {} \in SUBSET Threads
    <3>6. UNION {receipt[Receipt(s, n)].on : n \in Threads} = Targets(s, job[s].counted)
      BY <3>1, <3>3, <3>4
    <3>7. \A n \in Threads : receipt[Receipt(s, n)].status = "none" <=> n > job[s].receipts
      BY <2>1, <3>2, <3>4
    <3> QED BY <3>5, <3>6, <3>7 DEF ReceiptsAddUp
  <2>5. RunFollows(s)
    BY <2>1 DEF RunFollows, NoRun
  <2> QED BY <2>2, <2>3, <2>4, <2>5
<1> QED BY <1>2, <1>5, <1>6 DEF SweepInv

\* Steps of a sweep that send nothing and record nothing.
LEMMA JobMoves ==
  ASSUME SweepInv, NEW s \in Sweeps, run[s].status = "none", UNCHANGED <<vars, preview, run, undoing, gone>>,
         NEW j \in Jobs, job' = [job EXCEPT ![s] = j],
         j.receipts = job[s].receipts, j.counted = job[s].counted, j.phase # "none",
         j.phase \in {"previewed", "batches"} => j.batch = {},
         j.todo \cup j.batch \cup j.counted \cup j.skipped = job[s].todo \cup job[s].batch \cup job[s].counted \cup job[s].skipped,
         j.todo \cap (j.batch \cup j.counted \cup j.skipped) = {}, j.batch \cap (j.counted \cup j.skipped) = {},
         j.counted \cap j.skipped = {}
  PROVE  SweepInv'
<1>1. /\ SweepTypeOK /\ RowsInv /\ job'[s] = j /\ \A t \in Sweeps : t # s => job'[t] = job[t]
      /\ PreviewIsAnchored(s) /\ JobAddsUp(s) /\ ReceiptsAddUp(s) /\ RunFollows(s)
  BY DEF SweepInv, SweepTypeOK
<1>2. SweepTypeOK' /\ RowsInv' /\ \A a \in Actions : Calm(a)
  BY <1>1 DEF SweepTypeOK, RowsInv, TypeOK, RevisionsCountWrites, ReceiptsStand, Calm, vars, rowVars
<1>3. ASSUME NEW t \in Sweeps, t # s
      PROVE  PreviewIsAnchored(t)' /\ JobAddsUp(t)' /\ ReceiptsAddUp(t)' /\ RunFollows(t)'
  BY <1>1, <1>2, <1>3, ReceiptIds, SweepFrame
<1>4. PreviewIsAnchored(s)'
  BY <1>1 DEF PreviewIsAnchored
<1>5. JobAddsUp(s)'
  BY <1>1 DEF JobAddsUp
<1>6. ReceiptsAddUp(s)'
  BY <1>1 DEF ReceiptsAddUp, Targets, vars
<1>7. RunFollows(s)'
  <2>1. undoing[s] = 0 /\ \A n \in Threads : ~(n < 0)
    BY <1>1, ThreadsFinite DEF RunFollows
  <2> QED BY <2>1 DEF RunFollows
<1> QED BY <1>2, <1>3, <1>4, <1>5, <1>6, <1>7 DEF SweepInv

LEMMA CaptureFacts ==
  ASSUME RowsInv, NEW c \in Threads, NEW k \in 1..Len(Order[c])
  PROVE  /\ Capture(c, k) \in Captured
         /\ Capture(c, k).on \subseteq MembersOf(c)
         /\ \A m \in Capture(c, k).on : /\ Capture(c, k).revision[m] = Capture(c, k).version[m] + 1
                                        /\ Capture(c, k).mail[m] # 0
<1>1. /\ state \in [Members -> States] /\ mail \in [Members -> Nat] /\ version \in [Members -> Nat] /\ available \subseteq Members
      /\ \A m \in Members : state[m].revision = version[m] + 1 /\ mail[m] # 0
  BY DEF RowsInv, TypeOK, RevisionsCountWrites
<1>2. MembersOf(c) \subseteq Members
  BY MembersOfThreads
<1>3. {Order[c][i] : i \in 1..k} \subseteq MembersOf(c)
  <2>1. Order[c] \in Seq(Members)
    BY SweepAssumption DEF Threads
  <2>2. 1..k \subseteq DOMAIN Order[c]
    BY <2>1
  <2> QED BY <2>2 DEF MembersOf, ToSet
<1>4. \A m \in Members : state[m].revision \in Nat
  BY <1>1 DEF States
<1>5. [m \in Members |-> IF m \in MembersOf(c) THEN state[m].revision ELSE 0] \in [Members -> Nat]
  BY <1>4
<1>6. Capture(c, k) \in Captured
  BY <1>1, <1>5 DEF Capture, Captured
<1> QED BY <1>1, <1>2, <1>3, <1>6 DEF Capture

LEMMA PreviewSweep ==
  ASSUME SweepInv, NEW s \in Sweeps, Preview(s)
  PROVE  SweepInv'
<1>1. /\ SweepTypeOK /\ RowsInv /\ job[s].phase = "none" /\ UNCHANGED <<vars, run, undoing, gone>>
      /\ JobAddsUp(s) /\ ReceiptsAddUp(s) /\ RunFollows(s) /\ job[s] \in Jobs
  BY DEF SweepInv, SweepTypeOK, Preview
<1>2. PICK chosen \in SUBSET Threads : \E kept \in [chosen -> 1..Batch] :
        /\ \A c \in chosen : kept[c] <= Len(Order[c]) /\ Capture(c, kept[c]).on # {}
        /\ preview' = [preview EXCEPT ![s] = [c \in Threads |-> IF c \in chosen THEN Capture(c, kept[c]) ELSE NoCapture]]
        /\ job' = [job EXCEPT ![s].phase = "previewed", ![s].todo = chosen]
  BY DEF Preview
<1>3. PICK kept \in [chosen -> 1..Batch] :
        /\ \A c \in chosen : kept[c] <= Len(Order[c]) /\ Capture(c, kept[c]).on # {}
        /\ preview' = [preview EXCEPT ![s] = [c \in Threads |-> IF c \in chosen THEN Capture(c, kept[c]) ELSE NoCapture]]
        /\ job' = [job EXCEPT ![s].phase = "previewed", ![s].todo = chosen]
  BY <1>2
<1> DEFINE captured == [c \in Threads |-> IF c \in chosen THEN Capture(c, kept[c]) ELSE NoCapture]
<1>4. \A c \in chosen : kept[c] \in 1..Len(Order[c])
  <2>1. \A c \in chosen : Len(Order[c]) \in Nat
    BY SweepAssumption DEF Threads
  <2> QED BY <1>3, <2>1
<1>5. NoCapture \in Captured /\ NoCapture.on = {}
  BY DEF NoCapture, Captured, NoCommand
<1>6. \A c \in Threads : c \in chosen => captured[c] = Capture(c, kept[c])
  OBVIOUS
<1>7. \A c \in Threads : c \notin chosen => captured[c] = NoCapture
  OBVIOUS
<1>8. preview' = [preview EXCEPT ![s] = captured]
  BY <1>3
<1>9. DOMAIN captured = Threads /\ captured = [c \in Threads |-> captured[c]]
  OBVIOUS
<1> HIDE DEF captured
<1>10. \A c \in Threads : captured[c] \in Captured
  BY <1>1, <1>4, <1>5, <1>6, <1>7, CaptureFacts
<1>11. captured \in [Threads -> Captured]
  BY <1>9, <1>10
<1>12. preview'[s] = captured /\ preview' \in [Sweeps -> [Threads -> Captured]] /\ \A t \in Sweeps : t # s => preview'[t] = preview[t]
  BY <1>1, <1>8, <1>11 DEF SweepTypeOK
<1>13. /\ job' = [job EXCEPT ![s] = [job[s] EXCEPT !.phase = "previewed", !.todo = chosen]]
  BY <1>1, <1>3 DEF SweepTypeOK
<1>14. PICK j \in Jobs : j = [job[s] EXCEPT !.phase = "previewed", !.todo = chosen]
  BY <1>1 DEF Jobs
<1>15. /\ j.phase = "previewed" /\ j.todo = chosen /\ j.batch = job[s].batch /\ j.receipts = job[s].receipts
       /\ j.counted = job[s].counted /\ j.skipped = job[s].skipped
  BY <1>1, <1>14 DEF Jobs
<1>16. job' \in [Sweeps -> Jobs] /\ job'[s] = j /\ \A t \in Sweeps : t # s => job'[t] = job[t]
  BY <1>1, <1>13, <1>14 DEF SweepTypeOK
<1>17. SweepTypeOK' /\ RowsInv' /\ \A a \in Actions : Calm(a)
  BY <1>1, <1>12, <1>16 DEF SweepTypeOK, RowsInv, TypeOK, RevisionsCountWrites, ReceiptsStand, Calm, vars, rowVars
<1>18. ASSUME NEW t \in Sweeps, t # s
       PROVE  PreviewIsAnchored(t)' /\ JobAddsUp(t)' /\ ReceiptsAddUp(t)' /\ RunFollows(t)'
  BY <1>1, <1>12, <1>16, <1>17, <1>18, ReceiptIds, SweepFrame
<1>19. /\ \A c \in Threads : preview[s][c].on = {}
       /\ job[s].batch = {} /\ job[s].counted = {} /\ job[s].skipped = {} /\ job[s].receipts <= 0
  BY <1>1, FS_EmptySet DEF JobAddsUp
<1>20. PreviewIsAnchored(s)'
  <2>1. \A c \in Threads : /\ captured[c].on \subseteq MembersOf(c)
                           /\ \A m \in captured[c].on : /\ captured[c].revision[m] = captured[c].version[m] + 1
                                                        /\ captured[c].mail[m] # 0
    BY <1>1, <1>4, <1>5, <1>6, <1>7, CaptureFacts
  <2> QED BY <1>12, <2>1 DEF PreviewIsAnchored
<1>21. JobAddsUp(s)'
  <2>1. {c \in Threads : captured[c].on # {}} = chosen
    BY <1>3, <1>5, <1>6, <1>7
  <2> QED BY <1>12, <1>15, <1>16, <1>19, <2>1, FS_EmptySet DEF JobAddsUp
<1>22. ReceiptsAddUp(s)'
  <2>1. \A n \in Threads : receipt[Receipt(s, n)].status = "none" <=> n > j.receipts
    BY <1>1, <1>15 DEF ReceiptsAddUp
  <2>2. \A n \in Threads : receipt[Receipt(s, n)].on = {}
    BY <1>1, <1>19 DEF ReceiptsAddUp, Targets
  <2>3. Targets(s, {})' = {} /\ Targets(s, job[s].counted)' = {}
    BY <1>15, <1>16, <1>19 DEF Targets
  <2>4. \A n \in Threads : \E cs \in SUBSET Threads : receipt[Receipt(s, n)].on = Targets(s, cs)'
    BY <2>2, <2>3, {} \in SUBSET Threads
  <2>5. UNION {receipt[Receipt(s, n)].on : n \in Threads} = {}
    BY <2>2
  <2>6. receipt' = receipt
    BY <1>1 DEF vars
  <2> QED BY <1>16, <2>1, <2>3, <2>4, <2>5, <2>6 DEF ReceiptsAddUp
<1>23. RunFollows(s)'
  <2>1. run[s].status = "none"
    BY <1>1 DEF RunFollows
  <2>2. undoing[s] = 0 /\ \A n \in Threads : ~(n < 0)
    BY <1>1, <2>1, ThreadsFinite DEF RunFollows
  <2> QED BY <1>1, <2>1, <2>2 DEF RunFollows
<1> QED BY <1>17, <1>18, <1>20, <1>21, <1>22, <1>23 DEF SweepInv

\* There is a receipt number for every conversation that is still to be sent.
LEMMA RoomForReceipt ==
  ASSUME SweepInv, NEW s \in Sweeps, NEW cs \in SUBSET Threads, cs # {}, cs \subseteq job[s].todo \cup job[s].batch
  PROVE  job[s].receipts + 1 \in Threads /\ job[s].receipts + 1 <= Cardinality(job[s].counted \cup cs)
<1>1. JobAddsUp(s) /\ job[s] \in Jobs
  BY DEF SweepInv, SweepTypeOK
<1>2. job[s].receipts \in Nat /\ job[s].counted \in SUBSET Threads
  BY <1>1, ThreadsFinite DEF Jobs
<1>3. cs \cap job[s].counted = {}
  BY <1>1 DEF JobAddsUp
<1>4. job[s].receipts <= Cardinality(job[s].counted)
  BY <1>1 DEF JobAddsUp
<1>5. /\ Cardinality(job[s].counted) \in Nat /\ Cardinality(job[s].counted \cup cs) \in Nat
      /\ Cardinality(job[s].counted \cup cs) <= Len(Order)
  BY <1>2, ThreadsFinite
<1>6. job[s].receipts + 1 <= Cardinality(job[s].counted \cup cs)
  BY <1>2, <1>3, <1>4, <1>5, CountedGrows
<1> QED BY <1>2, <1>5, <1>6, ThreadsFinite

\* A call that is accepted takes the sweep to j.
Accepted(s, cs, j) ==
  /\ cs # {} /\ cs \subseteq job[s].todo \cup job[s].batch /\ job[s].phase \in {"batches", "singles"}
  /\ Sent(s, cs) /\ UNCHANGED <<preview, run, undoing, gone>> /\ job' = [job EXCEPT ![s] = j]
  /\ j.todo = job[s].todo \ cs /\ j.batch = job[s].batch \ cs /\ j.receipts = job[s].receipts + 1
  /\ j.counted = job[s].counted \cup cs /\ j.skipped = job[s].skipped
  /\ j.phase \in {"batches", "singles"} /\ (j.phase = "batches" => j.batch = {})

\* The conversations cs went out as receipt n, and no other receipt was touched.
SentAs(s, cs, n) ==
  /\ Sent(s, cs) /\ n = job[s].receipts + 1
  /\ receipt[Receipt(s, n)].status = "none" /\ receipt'[Receipt(s, n)].on = Targets(s, cs)
  /\ \A a \in Actions : a # Receipt(s, n) => Calm(a)

LEMMA SentSweep ==
  ASSUME SweepInv, NEW s \in Sweeps, NEW cs \in SUBSET Threads, NEW j \in Jobs, Accepted(s, cs, j)
  PROVE  SweepInv' /\ \E n \in Threads : SentAs(s, cs, n)
<1>0. /\ cs # {} /\ cs \subseteq job[s].todo \cup job[s].batch /\ job[s].phase \in {"batches", "singles"}
      /\ Sent(s, cs) /\ UNCHANGED <<preview, run, undoing, gone>> /\ job' = [job EXCEPT ![s] = j]
      /\ j.todo = job[s].todo \ cs /\ j.batch = job[s].batch \ cs /\ j.receipts = job[s].receipts + 1
      /\ j.counted = job[s].counted \cup cs /\ j.skipped = job[s].skipped
      /\ j.phase \in {"batches", "singles"} /\ (j.phase = "batches" => j.batch = {})
  BY DEF Accepted
<1>1. /\ SweepTypeOK /\ RowsInv /\ job[s] \in Jobs
      /\ PreviewIsAnchored(s) /\ JobAddsUp(s) /\ ReceiptsAddUp(s) /\ RunFollows(s)
  BY DEF SweepInv, SweepTypeOK
<1>2. /\ job[s].receipts \in Nat /\ job[s].counted \in SUBSET Threads /\ job[s].todo \in SUBSET Threads
      /\ job[s].batch \in SUBSET Threads /\ job[s].skipped \in SUBSET Threads
  BY <1>1, ThreadsFinite DEF Jobs
<1>3. cs \cap job[s].counted = {} /\ cs \cap job[s].skipped = {}
  BY <1>0, <1>1 DEF JobAddsUp
<1>4. job[s].receipts + 1 <= Cardinality(job[s].counted \cup cs)
  BY <1>0, RoomForReceipt
<1>5. job[s].receipts + 1 \in Threads
  BY <1>0, RoomForReceipt
<1>6. PICK n \in Threads : n = job[s].receipts + 1
  BY <1>5
<1>7. PICK a \in Actions : a = Receipt(s, n)
  BY ReceiptIds
<1>8. PICK c : c = DoneCommand(s, cs)
  OBVIOUS
<1>9. Perform(a, c) /\ UNCHANGED <<mail, available, clock, command, shown>>
  BY <1>0, <1>6, <1>7, <1>8 DEF Sent
<1>10. c.on = Targets(s, cs) /\ c.until = 0
  BY <1>8 DEF DoneCommand
<1>11. Targets(s, cs) \subseteq Members
  BY <1>1, MembersOfThreads DEF PreviewIsAnchored, Targets
<1>12. 0 \in Instants
  BY MailboxAssumption DEF Instants
<1>13. c.on \in SUBSET Members /\ c.until \in Instants
  BY <1>10, <1>11, <1>12
<1>14. /\ RowsInv'
       /\ receipt[a].status = "none" /\ receipt'[a].status = "applied" /\ receipt'[a].on = Targets(s, cs)
       /\ \A b \in Actions : b # a => Calm(b)
  BY <1>1, <1>9, <1>10, <1>13, RowsPerform
<1>15. /\ j.todo = job[s].todo \ cs /\ j.batch = job[s].batch \ cs /\ j.receipts = n
       /\ j.counted = job[s].counted \cup cs /\ j.skipped = job[s].skipped
  BY <1>0, <1>6
<1>16. job' \in [Sweeps -> Jobs] /\ job'[s] = j /\ \A t \in Sweeps : t # s => job'[t] = job[t]
  BY <1>0, <1>1 DEF SweepTypeOK
<1>17. SweepTypeOK'
  BY <1>0, <1>1, <1>14, <1>16 DEF SweepTypeOK, RowsInv
<1>18. ASSUME NEW t \in Sweeps, t # s
       PROVE  PreviewIsAnchored(t)' /\ JobAddsUp(t)' /\ ReceiptsAddUp(t)' /\ RunFollows(t)'
  <2>1. \A k \in Threads : Receipt(t, k) \in Actions /\ Receipt(t, k) # a
    BY <1>7, <1>18, ReceiptIds
  <2> QED BY <1>0, <1>14, <1>16, <1>18, <2>1, SweepFrame
<1>19. PreviewIsAnchored(s)'
  BY <1>0, <1>1 DEF PreviewIsAnchored
<1>20. JobAddsUp(s)'
  <2>1. j.phase # "none" /\ j.phase # "previewed" /\ j.receipts <= Cardinality(j.counted)
    BY <1>0, <1>4, <1>15
  <2>2. {k \in Threads : preview[s][k].on # {}} = j.todo \cup j.batch \cup j.counted \cup j.skipped
    BY <1>0, <1>1, <1>15 DEF JobAddsUp
  <2>3. /\ j.todo \cap (j.batch \cup j.counted \cup j.skipped) = {} /\ j.batch \cap (j.counted \cup j.skipped) = {}
        /\ j.counted \cap j.skipped = {}
    BY <1>1, <1>3, <1>15 DEF JobAddsUp
  <2> QED BY <1>0, <1>16, <2>1, <2>2, <2>3 DEF JobAddsUp
<1>21. ReceiptsAddUp(s)'
  <2>1. \A k \in Threads : k # n => Receipt(s, k) \in Actions /\ Receipt(s, k) # a
    BY <1>7, ReceiptIds
  <2>2. \A k \in Threads : k # n => /\ receipt'[Receipt(s, k)].on = receipt[Receipt(s, k)].on
                                    /\ receipt'[Receipt(s, k)].status = "none" <=> receipt[Receipt(s, k)].status = "none"
    BY <1>14, <2>1 DEF Calm
  <2>3. \A ks : Targets(s, ks)' = Targets(s, ks)
    BY <1>0 DEF Targets
  <2>4. ASSUME NEW k \in Threads PROVE receipt'[Receipt(s, k)].status = "none" <=> k > n
    <3>1. receipt[Receipt(s, k)].status = "none" <=> k > job[s].receipts
      BY <1>1 DEF ReceiptsAddUp
    <3>2. k \in Nat /\ n \in Nat
      BY ThreadsFinite
    <3> QED BY <1>2, <1>6, <1>7, <1>14, <2>2, <3>1, <3>2
  <2>5. ASSUME NEW k \in Threads PROVE \E ks \in SUBSET Threads : receipt'[Receipt(s, k)].on = Targets(s, ks)'
    <3>1. CASE k = n
      BY <1>7, <1>14, <2>3, <3>1
    <3>2. CASE k # n
      BY <1>1, <2>2, <2>3, <3>2 DEF ReceiptsAddUp
    <3> QED BY <3>1, <3>2
  <2>6. receipt[a].on = {}
    BY <1>1, <1>14 DEF RowsInv, ReceiptsStand
  <2>7. Targets(s, job[s].counted)' = Targets(s, job[s].counted \cup cs)
    BY <1>0, <1>15, <1>16 DEF Targets
  <2>8. Targets(s, job[s].counted \cup cs) = Targets(s, job[s].counted) \cup Targets(s, cs)
    BY DEF Targets
  <2>9. \A m : m \in Targets(s, job[s].counted) <=> \E k \in Threads : m \in receipt[Receipt(s, k)].on
    <3>1. Targets(s, job[s].counted) = UNION {receipt[Receipt(s, k)].on : k \in Threads}
      BY <1>1 DEF ReceiptsAddUp
    <3> QED BY <3>1
  <2>10. UNION {receipt'[Receipt(s, k)].on : k \in Threads} = Targets(s, job[s].counted)'
    <3>1. ASSUME NEW m, NEW k \in Threads, m \in receipt'[Receipt(s, k)].on
          PROVE  m \in Targets(s, job[s].counted) \cup Targets(s, cs)
      <4>1. CASE k = n
        BY <1>7, <1>14, <3>1, <4>1
      <4>2. CASE k # n
        BY <2>2, <2>9, <3>1, <4>2
      <4> QED BY <4>1, <4>2
    <3>2. ASSUME NEW m, m \in Targets(s, job[s].counted) \cup Targets(s, cs)
          PROVE  \E k \in Threads : m \in receipt'[Receipt(s, k)].on
      <4>1. CASE m \in Targets(s, cs)
        BY <1>7, <1>14, <4>1
      <4>2. CASE m \in Targets(s, job[s].counted)
        <5>1. PICK k \in Threads : m \in receipt[Receipt(s, k)].on
          BY <2>9, <4>2
        <5>2. k # n
          BY <1>7, <2>6, <5>1
        <5> QED BY <2>2, <5>1, <5>2
      <4> QED BY <3>2, <4>1, <4>2
    <3>3. UNION {receipt'[Receipt(s, k)].on : k \in Threads} = Targets(s, job[s].counted) \cup Targets(s, cs)
      BY <3>1, <3>2
    <3> QED BY <2>7, <2>8, <3>3
  <2>11. job'[s].receipts = n
    BY <1>15, <1>16
  <2> QED BY <2>4, <2>5, <2>10, <2>11 DEF ReceiptsAddUp, Receipt
<1>22. RunFollows(s)'
  <2>1. run[s].status = "none"
    BY <1>0, <1>1 DEF RunFollows
  <2>2. undoing[s] = 0 /\ \A k \in Threads : ~(k < 0)
    BY <1>1, <2>1, ThreadsFinite DEF RunFollows
  <2> QED BY <1>0, <2>1, <2>2 DEF RunFollows
<1>23. SweepInv'
  BY <1>14, <1>17, <1>18, <1>19, <1>20, <1>21, <1>22 DEF SweepInv
<1>24. SentAs(s, cs, n)
  BY <1>0, <1>6, <1>7, <1>14 DEF SentAs
<1> QED BY <1>23, <1>24

LEMMA NextBatchFacts ==
  ASSUME SweepInv, NEW s \in Sweeps, NEW b \in NextBatch(s)
  PROVE  b \in SUBSET job[s].todo /\ b # {}
<1>1. job[s].todo \subseteq Threads
  BY DEF SweepInv, SweepTypeOK, Jobs
<1>2. PICK c \in job[s].todo : b = {d \in job[s].todo : d <= c}
  BY DEF NextBatch
<1>3. c <= c
  BY <1>1, <1>2, ThreadsFinite
<1> QED BY <1>2, <1>3

LEMMA BatchSentSweep ==
  ASSUME SweepInv, NEW s \in Sweeps, BatchSent(s)
  PROVE  SweepInv' /\ \E cs \in SUBSET Threads, n \in Threads : SentAs(s, cs, n)
<1>1. /\ job \in [Sweeps -> Jobs] /\ job[s] \in Jobs /\ JobAddsUp(s) /\ job[s].phase = "batches"
      /\ UNCHANGED <<preview, run, undoing, gone>>
  BY DEF SweepInv, SweepTypeOK, BatchSent
<1>2. PICK b \in NextBatch(s) :
        /\ Sent(s, b)
        /\ job' = [job EXCEPT ![s].receipts = @ + 1, ![s].counted = @ \cup b, ![s].todo = @ \ b]
  BY DEF BatchSent
<1>3. b \subseteq job[s].todo \cup job[s].batch /\ b # {} /\ b \in SUBSET Threads
  BY <1>1, NextBatchFacts DEF Jobs
<1>4. PICK n : n = job[s].receipts + 1
  OBVIOUS
<1>5. n \in 0..Len(Order)
  <2>1. job[s].receipts + 1 \in Threads
    BY <1>3, RoomForReceipt
  <2> QED BY <1>4, <2>1, ThreadsFinite
<1>6. PICK j \in Jobs : j = [job[s] EXCEPT !.receipts = n, !.counted = job[s].counted \cup b, !.todo = job[s].todo \ b]
  <2>1. job[s].counted \cup b \in SUBSET Threads /\ job[s].todo \ b \in SUBSET Threads
    BY <1>1, <1>3 DEF Jobs
  <2> QED BY <1>1, <1>5, <2>1 DEF Jobs
<1>7. /\ j.phase = "batches" /\ j.todo = job[s].todo \ b /\ j.batch = job[s].batch /\ j.receipts = n
      /\ j.counted = job[s].counted \cup b /\ j.skipped = job[s].skipped
  BY <1>1, <1>6 DEF Jobs
<1>8. job[s].batch = {} /\ job[s].batch \ b = job[s].batch
  BY <1>1 DEF JobAddsUp
<1>9. job' = [job EXCEPT ![s] = [job[s] EXCEPT !.receipts = n, !.counted = job[s].counted \cup b, !.todo = job[s].todo \ b]]
  BY <1>1, <1>2, <1>4
<1>10. job' = [job EXCEPT ![s] = j]
  BY <1>6, <1>9
<1>11. j.batch = job[s].batch \ b /\ j.batch = {} /\ j.receipts = job[s].receipts + 1
  BY <1>4, <1>7, <1>8
<1>12. Accepted(s, b, j)
  BY <1>1, <1>2, <1>3, <1>7, <1>10, <1>11 DEF Accepted
<1> QED BY <1>3, <1>12, SentSweep

LEMMA SingleSentSweep ==
  ASSUME SweepInv, NEW s \in Sweeps, SingleSent(s)
  PROVE  SweepInv' /\ \E cs \in SUBSET Threads, n \in Threads : SentAs(s, cs, n)
<1>1. /\ job \in [Sweeps -> Jobs] /\ job[s] \in Jobs /\ JobAddsUp(s) /\ job[s].phase = "singles"
      /\ UNCHANGED <<preview, run, undoing, gone>>
  BY DEF SweepInv, SweepTypeOK, SingleSent
<1>2. PICK c \in job[s].batch :
        /\ Sent(s, {c})
        /\ job' = [job EXCEPT ![s].phase = Onwards(s, c), ![s].receipts = @ + 1,
                              ![s].counted = @ \cup {c}, ![s].batch = @ \ {c}]
  BY DEF SingleSent, First
<1>3. c \in Threads /\ c \notin job[s].todo
  BY <1>1, <1>2 DEF Jobs, JobAddsUp
<1>4. PICK p \in {"batches", "singles"} : p = Onwards(s, c)
  BY DEF Onwards
<1>5. PICK n : n = job[s].receipts + 1
  OBVIOUS
<1>6. {c} \in SUBSET Threads /\ {c} # {} /\ {c} \subseteq job[s].todo \cup job[s].batch
  BY <1>2, <1>3
<1>7. n \in 0..Len(Order)
  <2>1. job[s].receipts + 1 \in Threads
    BY <1>6, RoomForReceipt
  <2> QED BY <1>5, <2>1, ThreadsFinite
<1>8. PICK j \in Jobs : j = [job[s] EXCEPT !.phase = p, !.receipts = n, !.counted = job[s].counted \cup {c},
                                           !.batch = job[s].batch \ {c}]
  <2>1. job[s].counted \cup {c} \in SUBSET Threads /\ job[s].batch \ {c} \in SUBSET Threads
    BY <1>1, <1>3 DEF Jobs
  <2> QED BY <1>1, <1>7, <2>1 DEF Jobs
<1>9. /\ j.phase = p /\ j.todo = job[s].todo /\ j.batch = job[s].batch \ {c} /\ j.receipts = n
      /\ j.counted = job[s].counted \cup {c} /\ j.skipped = job[s].skipped
  BY <1>1, <1>8 DEF Jobs
<1>10. job' = [job EXCEPT ![s] = [job[s] EXCEPT !.phase = p, !.receipts = n, !.counted = job[s].counted \cup {c},
                                                !.batch = job[s].batch \ {c}]]
  BY <1>1, <1>2, <1>4, <1>5
<1>11. job' = [job EXCEPT ![s] = j]
  BY <1>8, <1>10
<1>12. j.todo = job[s].todo \ {c} /\ j.receipts = job[s].receipts + 1
  BY <1>3, <1>5, <1>9
<1>13. j.phase = "batches" => j.batch = {}
  BY <1>4, <1>9 DEF Onwards
<1>14. Accepted(s, {c}, j)
  BY <1>1, <1>2, <1>4, <1>6, <1>9, <1>11, <1>12, <1>13 DEF Accepted
<1> QED BY <1>6, <1>14, SentSweep

LEMMA ApplyBeginsSweep ==
  ASSUME SweepInv, NEW s \in Sweeps, ApplyBegins(s)
  PROVE  SweepInv'
<1>1. /\ job \in [Sweeps -> Jobs] /\ job[s] \in Jobs /\ JobAddsUp(s) /\ RunFollows(s) /\ job[s].phase = "previewed"
      /\ job' = [job EXCEPT ![s].phase = "batches"] /\ UNCHANGED <<vars, preview, run, undoing, gone>>
  BY DEF SweepInv, SweepTypeOK, ApplyBegins
<1>2. PICK j \in Jobs : j = [job[s] EXCEPT !.phase = "batches"]
  BY <1>1 DEF Jobs
<1>3. /\ j.phase = "batches" /\ j.todo = job[s].todo /\ j.batch = job[s].batch /\ j.receipts = job[s].receipts
      /\ j.counted = job[s].counted /\ j.skipped = job[s].skipped
  BY <1>1, <1>2 DEF Jobs
<1>4. run[s].status = "none" /\ job' = [job EXCEPT ![s] = j]
  BY <1>1, <1>2 DEF RunFollows
<1>5. /\ job[s].batch = {} /\ job[s].todo \cap (job[s].batch \cup job[s].counted \cup job[s].skipped) = {}
      /\ job[s].batch \cap (job[s].counted \cup job[s].skipped) = {} /\ job[s].counted \cap job[s].skipped = {}
  BY <1>1 DEF JobAddsUp
<1> QED BY <1>1, <1>3, <1>4, <1>5, JobMoves

LEMMA AbandonedSweep ==
  ASSUME SweepInv, NEW s \in Sweeps, Abandoned(s)
  PROVE  SweepInv'
<1>1. /\ job \in [Sweeps -> Jobs] /\ job[s] \in Jobs /\ JobAddsUp(s) /\ RunFollows(s)
      /\ job[s].phase \in {"previewed", "batches", "singles"}
      /\ job' = [job EXCEPT ![s].phase = "over"] /\ UNCHANGED <<vars, preview, run, undoing, gone>>
  BY DEF SweepInv, SweepTypeOK, Abandoned
<1>2. PICK j \in Jobs : j = [job[s] EXCEPT !.phase = "over"]
  BY <1>1 DEF Jobs
<1>3. /\ j.phase = "over" /\ j.todo = job[s].todo /\ j.batch = job[s].batch /\ j.receipts = job[s].receipts
      /\ j.counted = job[s].counted /\ j.skipped = job[s].skipped
  BY <1>1, <1>2 DEF Jobs
<1>4. run[s].status = "none" /\ job' = [job EXCEPT ![s] = j]
  BY <1>1, <1>2 DEF RunFollows
<1>5. /\ job[s].todo \cap (job[s].batch \cup job[s].counted \cup job[s].skipped) = {}
      /\ job[s].batch \cap (job[s].counted \cup job[s].skipped) = {} /\ job[s].counted \cap job[s].skipped = {}
  BY <1>1 DEF JobAddsUp
<1> QED BY <1>1, <1>3, <1>4, <1>5, JobMoves

LEMMA BatchMovedSweep ==
  ASSUME SweepInv, NEW s \in Sweeps, BatchMoved(s)
  PROVE  SweepInv'
<1>1. /\ job \in [Sweeps -> Jobs] /\ job[s] \in Jobs /\ JobAddsUp(s) /\ RunFollows(s) /\ job[s].phase = "batches"
      /\ UNCHANGED <<vars, preview, run, undoing, gone>>
  BY DEF SweepInv, SweepTypeOK, BatchMoved
<1>2. PICK b \in NextBatch(s) :
        job' = [job EXCEPT ![s].phase = "singles", ![s].batch = b, ![s].todo = @ \ b]
  BY DEF BatchMoved
<1>3. b \in SUBSET job[s].todo /\ b \in SUBSET Threads /\ job[s].todo \ b \in SUBSET Threads
  BY <1>1, NextBatchFacts DEF Jobs
<1>4. PICK j \in Jobs : j = [job[s] EXCEPT !.phase = "singles", !.batch = b, !.todo = job[s].todo \ b]
  BY <1>1, <1>3 DEF Jobs
<1>5. /\ j.phase = "singles" /\ j.todo = job[s].todo \ b /\ j.batch = b /\ j.receipts = job[s].receipts
      /\ j.counted = job[s].counted /\ j.skipped = job[s].skipped
  BY <1>1, <1>4 DEF Jobs
<1>6. job' = [job EXCEPT ![s] = [job[s] EXCEPT !.phase = "singles", !.batch = b, !.todo = job[s].todo \ b]]
  BY <1>1, <1>2
<1>7. run[s].status = "none" /\ job' = [job EXCEPT ![s] = j]
  BY <1>1, <1>4, <1>6 DEF RunFollows
<1>8. /\ job[s].batch = {} /\ job[s].todo \cap (job[s].counted \cup job[s].skipped) = {} /\ job[s].counted \cap job[s].skipped = {}
  BY <1>1 DEF JobAddsUp
<1>9. /\ j.todo \cup j.batch \cup j.counted \cup j.skipped = job[s].todo \cup job[s].batch \cup job[s].counted \cup job[s].skipped
      /\ j.todo \cap (j.batch \cup j.counted \cup j.skipped) = {} /\ j.batch \cap (j.counted \cup j.skipped) = {}
      /\ j.counted \cap j.skipped = {}
  BY <1>3, <1>5, <1>8
<1> QED BY <1>1, <1>5, <1>7, <1>9, JobMoves

LEMMA SingleMovedSweep ==
  ASSUME SweepInv, NEW s \in Sweeps, SingleMoved(s)
  PROVE  SweepInv'
<1>1. /\ job \in [Sweeps -> Jobs] /\ job[s] \in Jobs /\ JobAddsUp(s) /\ RunFollows(s) /\ job[s].phase = "singles"
      /\ UNCHANGED <<vars, preview, run, undoing, gone>>
  BY DEF SweepInv, SweepTypeOK, SingleMoved
<1>2. PICK c \in job[s].batch :
        job' = [job EXCEPT ![s].phase = Onwards(s, c), ![s].skipped = @ \cup {c}, ![s].batch = @ \ {c}]
  BY DEF SingleMoved, First
<1>3. PICK p \in {"batches", "singles"} : p = Onwards(s, c)
  BY DEF Onwards
<1>4. job[s].skipped \cup {c} \in SUBSET Threads /\ job[s].batch \ {c} \in SUBSET Threads
  BY <1>1, <1>2 DEF Jobs
<1>5. PICK j \in Jobs : j = [job[s] EXCEPT !.phase = p, !.skipped = job[s].skipped \cup {c}, !.batch = job[s].batch \ {c}]
  BY <1>1, <1>4 DEF Jobs
<1>6. /\ j.phase = p /\ j.todo = job[s].todo /\ j.batch = job[s].batch \ {c} /\ j.receipts = job[s].receipts
      /\ j.counted = job[s].counted /\ j.skipped = job[s].skipped \cup {c}
  BY <1>1, <1>5 DEF Jobs
<1>7. job' = [job EXCEPT ![s] = [job[s] EXCEPT !.phase = p, !.skipped = job[s].skipped \cup {c}, !.batch = job[s].batch \ {c}]]
  BY <1>1, <1>2, <1>3
<1>8. run[s].status = "none" /\ job' = [job EXCEPT ![s] = j]
  BY <1>1, <1>5, <1>7 DEF RunFollows
<1>9. /\ job[s].todo \cap (job[s].batch \cup job[s].counted \cup job[s].skipped) = {}
      /\ job[s].batch \cap (job[s].counted \cup job[s].skipped) = {} /\ job[s].counted \cap job[s].skipped = {}
  BY <1>1 DEF JobAddsUp
<1>10. /\ j.todo \cup j.batch \cup j.counted \cup j.skipped = job[s].todo \cup job[s].batch \cup job[s].counted \cup job[s].skipped
       /\ j.todo \cap (j.batch \cup j.counted \cup j.skipped) = {} /\ j.batch \cap (j.counted \cup j.skipped) = {}
       /\ j.counted \cap j.skipped = {}
  BY <1>2, <1>6, <1>9
<1>11. j.phase \in {"batches", "singles"} /\ (j.phase = "batches" => j.batch = {})
  BY <1>3, <1>6 DEF Onwards
<1> QED BY <1>1, <1>6, <1>8, <1>10, <1>11, JobMoves

\* The row of a run takes over what apply counted.
LEMMA RecordedSweep ==
  ASSUME SweepInv, NEW s \in Sweeps, Recorded(s)
  PROVE  SweepInv'
<1>1. /\ SweepTypeOK /\ RowsInv /\ job[s] \in Jobs /\ JobAddsUp(s) /\ RunFollows(s) /\ PreviewIsAnchored(s) /\ ReceiptsAddUp(s)
      /\ job[s].phase = "batches" /\ job[s].todo = {} /\ UNCHANGED <<vars, preview, undoing, gone>>
      /\ job' = [job EXCEPT ![s].phase = "over"]
  BY DEF SweepInv, SweepTypeOK, Recorded
<1>2. PICK r : r = [status |-> "recorded", receipts |-> job[s].receipts, counted |-> job[s].counted, skipped |-> job[s].skipped]
  OBVIOUS
<1>3. run' = [run EXCEPT ![s] = r]
  BY <1>2 DEF Recorded
<1>4. r \in Runs
  BY <1>1, <1>2 DEF Jobs, Runs
<1>5. PICK j \in Jobs : j = [job[s] EXCEPT !.phase = "over"]
  BY <1>1 DEF Jobs
<1>6. /\ j.phase = "over" /\ j.todo = job[s].todo /\ j.batch = job[s].batch /\ j.receipts = job[s].receipts
      /\ j.counted = job[s].counted /\ j.skipped = job[s].skipped
  BY <1>1, <1>5 DEF Jobs
<1>7. /\ job' = [job EXCEPT ![s] = j] /\ job'[s] = j /\ run'[s] = r /\ job' \in [Sweeps -> Jobs] /\ run' \in [Sweeps -> Runs]
      /\ \A t \in Sweeps : t # s => job'[t] = job[t] /\ run'[t] = run[t]
  BY <1>1, <1>3, <1>4, <1>5 DEF SweepTypeOK
<1>8. SweepTypeOK' /\ RowsInv' /\ \A a \in Actions : Calm(a)
  BY <1>1, <1>7 DEF SweepTypeOK, RowsInv, TypeOK, RevisionsCountWrites, ReceiptsStand, Calm, vars, rowVars
<1>9. ASSUME NEW t \in Sweeps, t # s
      PROVE  PreviewIsAnchored(t)' /\ JobAddsUp(t)' /\ ReceiptsAddUp(t)' /\ RunFollows(t)'
  BY <1>1, <1>7, <1>8, <1>9, ReceiptIds, SweepFrame
<1>10. PreviewIsAnchored(s)'
  BY <1>1 DEF PreviewIsAnchored
<1>11. JobAddsUp(s)'
  BY <1>1, <1>6, <1>7 DEF JobAddsUp
<1>12. ReceiptsAddUp(s)'
  <2>1. receipt' = receipt /\ preview' = preview /\ job'[s].receipts = job[s].receipts /\ job'[s].counted = job[s].counted
    BY <1>1, <1>6, <1>7 DEF vars
  <2> QED BY <1>1, <2>1 DEF ReceiptsAddUp, Targets
<1>13. RunFollows(s)'
  <2>1. undoing[s] = 0 /\ \A k \in Threads : ~(k < 0)
    BY <1>1, ThreadsFinite DEF RunFollows
  <2>2. r.status = "recorded" /\ r.receipts = j.receipts /\ r.counted = j.counted /\ r.skipped = j.skipped
    BY <1>2, <1>6
  <2>3. j.todo = {} /\ j.batch = {} /\ j.receipts \in Nat
    BY <1>1, <1>6, ThreadsFinite DEF JobAddsUp, Jobs
  <2>4. /\ run'[s].status = "recorded" /\ run'[s].receipts = job'[s].receipts /\ run'[s].counted = job'[s].counted
        /\ run'[s].skipped = job'[s].skipped /\ job'[s].phase = "over" /\ job'[s].todo = {} /\ job'[s].batch = {}
    BY <1>6, <1>7, <2>2, <2>3
  <2>5. undoing'[s] = 0 /\ 0 <= run'[s].receipts + 1
    BY <1>1, <1>7, <2>1, <2>2, <2>3
  <2> QED BY <2>1, <2>4, <2>5 DEF RunFollows
<1> QED BY <1>8, <1>9, <1>10, <1>11, <1>12, <1>13 DEF SweepInv

----------------------------------------------------------------------------
(* Undo. *)

\* Steps of an undo: they keep the sweep's apply and touch no other sweep.
LEMMA UndoMoves ==
  ASSUME SweepInv, NEW s \in Sweeps, RowsInv', \A a \in Actions : Calm(a), UNCHANGED <<preview, job>>,
         NEW r \in Runs, NEW u \in 0..Len(Order) + 1, NEW g \in SUBSET Members,
         run' = [run EXCEPT ![s] = r], undoing' = [undoing EXCEPT ![s] = u], gone' = [gone EXCEPT ![s] = g], RunFollows(s)'
  PROVE  SweepInv'
<1>1. /\ SweepTypeOK /\ PreviewIsAnchored(s) /\ JobAddsUp(s) /\ ReceiptsAddUp(s)
  BY DEF SweepInv
<1>2. /\ run' \in [Sweeps -> Runs] /\ undoing' \in [Sweeps -> 0..Len(Order) + 1] /\ gone' \in [Sweeps -> SUBSET Members]
      /\ \A t \in Sweeps : t # s => run'[t] = run[t] /\ undoing'[t] = undoing[t] /\ gone'[t] = gone[t]
  BY <1>1 DEF SweepTypeOK
<1>3. SweepTypeOK'
  BY <1>1, <1>2 DEF SweepTypeOK, RowsInv
<1>4. ASSUME NEW t \in Sweeps, t # s
      PROVE  PreviewIsAnchored(t)' /\ JobAddsUp(t)' /\ ReceiptsAddUp(t)' /\ RunFollows(t)'
  BY <1>2, <1>4, ReceiptIds, SweepFrame
<1>5. PreviewIsAnchored(s)' /\ JobAddsUp(s)' /\ ReceiptsAddUp(s)'
  BY <1>1, ReceiptIds, JobFrame
<1> QED BY <1>3, <1>4, <1>5 DEF SweepInv

LEMMA UndoBeginsSweep ==
  ASSUME SweepInv, NEW s \in Sweeps, UndoBegins(s)
  PROVE  SweepInv'
<1>1. /\ SweepTypeOK /\ RowsInv /\ RunFollows(s) /\ run[s].status = "recorded" /\ undoing' = [undoing EXCEPT ![s] = 1]
      /\ undoing'[s] = 1 /\ UNCHANGED <<vars, preview, job, run, gone>>
  BY DEF SweepInv, SweepTypeOK, UndoBegins
<1>2. RowsInv' /\ \A a \in Actions : Calm(a)
  BY <1>1 DEF RowsInv, TypeOK, RevisionsCountWrites, ReceiptsStand, Calm, vars, rowVars
<1>3. PICK r \in Runs : r = run[s]
  BY <1>1 DEF SweepTypeOK
<1>4. PICK g \in SUBSET Members : g = gone[s]
  BY <1>1 DEF SweepTypeOK
<1>5. run' = [run EXCEPT ![s] = r] /\ gone' = [gone EXCEPT ![s] = g] /\ 1 \in 0..Len(Order) + 1 /\ run[s].receipts \in Nat
  BY <1>1, <1>3, <1>4, ThreadsFinite DEF SweepTypeOK, Runs
<1>6. RunFollows(s)'
  <2>1. \A n \in Threads : ~(n < 1)
    BY ThreadsFinite
  <2> QED BY <1>1, <1>5, <2>1 DEF RunFollows
<1> QED BY <1>1, <1>2, <1>5, <1>6, UndoMoves

LEMMA UndoAbandonedSweep ==
  ASSUME SweepInv, NEW s \in Sweeps, UndoAbandoned(s)
  PROVE  SweepInv'
<1>1. /\ SweepTypeOK /\ RowsInv /\ RunFollows(s) /\ undoing' = [undoing EXCEPT ![s] = 0]
      /\ undoing'[s] = 0 /\ UNCHANGED <<vars, preview, job, run, gone>>
  BY DEF SweepInv, SweepTypeOK, UndoAbandoned
<1>2. RowsInv' /\ \A a \in Actions : Calm(a)
  BY <1>1 DEF RowsInv, TypeOK, RevisionsCountWrites, ReceiptsStand, Calm, vars, rowVars
<1>3. PICK r \in Runs : r = run[s]
  BY <1>1 DEF SweepTypeOK
<1>4. PICK g \in SUBSET Members : g = gone[s]
  BY <1>1 DEF SweepTypeOK
<1>5. run' = [run EXCEPT ![s] = r] /\ gone' = [gone EXCEPT ![s] = g] /\ 0 \in 0..Len(Order) + 1 /\ run[s].receipts \in Nat
  BY <1>1, <1>3, <1>4, ThreadsFinite DEF SweepTypeOK, Runs
<1>6. RunFollows(s)'
  <2>1. \A n \in Threads : ~(n < 0)
    BY ThreadsFinite
  <2>2. \A n \in Threads : Passed(s, n)' <=> Passed(s, n)
    BY <1>1 DEF Passed, vars, rowVars
  <2>3. receipt' = receipt
    BY <1>1 DEF vars
  <2>4. run[s].status # "none" => 0 <= run[s].receipts + 1
    BY <1>5
  <2> QED BY <1>1, <2>1, <2>2, <2>3, <2>4 DEF RunFollows
<1> QED BY <1>1, <1>2, <1>5, <1>6, UndoMoves

LEMMA UndoRecordedSweep ==
  ASSUME SweepInv, NEW s \in Sweeps, UndoRecorded(s)
  PROVE  SweepInv'
<1>1. /\ SweepTypeOK /\ RowsInv /\ RunFollows(s) /\ ReceiptsAddUp(s) /\ undoing[s] = run[s].receipts + 1
      /\ undoing' = [undoing EXCEPT ![s] = 0] /\ undoing'[s] = 0 /\ run[s] \in Runs
      /\ run' = [run EXCEPT ![s].status = "undone"] /\ UNCHANGED <<vars, preview, job, gone>>
  BY DEF SweepInv, SweepTypeOK, UndoRecorded
<1>2. RowsInv' /\ \A a \in Actions : Calm(a)
  BY <1>1 DEF RowsInv, TypeOK, RevisionsCountWrites, ReceiptsStand, Calm, vars, rowVars
<1>3. PICK r \in Runs : r = [run[s] EXCEPT !.status = "undone"]
  BY <1>1 DEF Runs
<1>4. PICK g \in SUBSET Members : g = gone[s]
  BY <1>1 DEF SweepTypeOK
<1>5. /\ run' = [run EXCEPT ![s] = r] /\ run'[s] = r /\ gone' = [gone EXCEPT ![s] = g] /\ 0 \in 0..Len(Order) + 1
      /\ run[s].receipts \in Nat
      /\ r.status = "undone" /\ r.receipts = run[s].receipts /\ r.counted = run[s].counted /\ r.skipped = run[s].skipped
  BY <1>1, <1>3, <1>4, ThreadsFinite DEF SweepTypeOK, Runs
<1>6. RunFollows(s)'
  <2>1. run[s].status # "none"
    BY <1>1, <1>5 DEF RunFollows
  <2>2. ASSUME NEW n \in Threads, receipt[Receipt(s, n)].status = "applied" PROVE Passed(s, n)
    <3>1. ~(n > job[s].receipts) /\ job[s].receipts = run[s].receipts
      BY <1>1, <2>1, <2>2 DEF ReceiptsAddUp, RunFollows
    <3>2. n < undoing[s]
      BY <1>1, <1>5, <3>1, ThreadsFinite
    <3> QED BY <1>1, <2>2, <3>2 DEF RunFollows
  <2>3. \A n \in Threads : Passed(s, n)' <=> Passed(s, n)
    BY <1>1 DEF Passed, vars, rowVars
  <2>4. receipt' = receipt /\ job' = job /\ 0 <= r.receipts + 1
    BY <1>1, <1>5 DEF vars
  <2>5. /\ job[s].phase = "over" /\ job[s].todo = {} /\ job[s].batch = {}
        /\ r.receipts = job[s].receipts /\ r.counted = job[s].counted /\ r.skipped = job[s].skipped
    BY <1>1, <1>5, <2>1 DEF RunFollows
  <2> QED BY <1>1, <1>5, <2>2, <2>3, <2>4, <2>5 DEF RunFollows
<1> QED BY <1>1, <1>2, <1>5, <1>6, UndoMoves

\* The receipt undo is at, and what it has gone past, when it goes on to the next.
LEMMA UndoSteps ==
  ASSUME SweepInv, NEW s \in Sweeps, NEW k \in Threads, k = undoing[s], k <= run[s].receipts, RowsInv', \A a \in Actions : Calm(a),
         undoing' = [undoing EXCEPT ![s] = undoing[s] + 1], UNCHANGED <<preview, job, run>>,
         NEW g \in SUBSET Members, gone' = [gone EXCEPT ![s] = g], gone[s] \subseteq g,
         receipt'[Receipt(s, k)].status = "applied" => Passed(s, k)'
  PROVE  SweepInv'
<1>1. /\ SweepTypeOK /\ RunFollows(s) /\ run[s].receipts \in 0..Len(Order) /\ undoing[s] \in Nat /\ gone'[s] = g
      /\ undoing'[s] = undoing[s] + 1
  BY DEF SweepInv, SweepTypeOK, Runs
<1>2. run[s].receipts \in Nat /\ run[s].receipts <= Len(Order)
  BY <1>1, ThreadsFinite
<1>3. PICK u \in 0..Len(Order) + 1 : u = undoing[s] + 1
  BY <1>1, <1>2, ThreadsFinite
<1>4. PICK r \in Runs : r = run[s]
  BY <1>1 DEF SweepTypeOK
<1>5. run' = [run EXCEPT ![s] = r] /\ undoing' = [undoing EXCEPT ![s] = u]
  BY <1>1, <1>3, <1>4 DEF SweepTypeOK
<1>6. ASSUME NEW n \in Threads, receipt'[Receipt(s, n)].status = "applied", n < undoing[s] + 1 PROVE Passed(s, n)'
  <2>1. n < undoing[s] \/ n = k
    BY <1>1, <1>6, ThreadsFinite
  <2>2. CASE n = k
    BY <1>6, <2>2
  <2>3. CASE n < undoing[s]
    <3>1. receipt[Receipt(s, n)].status = "applied" /\ Calm(Receipt(s, n)) /\ receipt[Receipt(s, n)].on \subseteq Members
      BY <1>6, ReceiptIds DEF Calm, SweepInv, RowsInv, TypeOK, Receipts
    <3>2. Passed(s, n)
      BY <1>1, <2>3, <3>1 DEF RunFollows
    <3> QED BY <1>1, <1>6, <3>1, <3>2, PassedStays
  <2> QED BY <2>1, <2>2, <2>3
<1>7. undoing[s] # 0 /\ run[s].status # "none" /\ run[s].status # "undone"
  BY <1>1, ThreadsFinite DEF RunFollows
<1>8. undoing[s] + 1 <= run[s].receipts + 1
  BY <1>1, <1>2
<1>9. RunFollows(s)'
  BY <1>1, <1>6, <1>7, <1>8 DEF RunFollows
<1> QED BY <1>5, <1>9, UndoMoves

LEMMA UndoTakesBackSweep ==
  ASSUME SweepInv, NEW s \in Sweeps, UndoTakesBack(s)
  PROVE  SweepInv'
<1>1. /\ RowsInv /\ undoing[s] \in 1..run[s].receipts /\ UndoStates(Receipt(s, undoing[s]))
      /\ undoing' = [undoing EXCEPT ![s] = undoing[s] + 1]
      /\ UNCHANGED <<mail, available, clock, command, shown, preview, job, run, gone>>
  BY DEF SweepInv, UndoTakesBack
<1>2. /\ SweepTypeOK /\ run[s].receipts \in 0..Len(Order) /\ undoing[s] \in Nat
  BY DEF SweepInv, SweepTypeOK, Runs
<1>3. PICK k \in Threads : k = undoing[s]
  BY <1>1, <1>2, ThreadsFinite
<1>4. PICK a \in Actions : a = Receipt(s, k)
  BY ReceiptIds
<1>5. RowsInv' /\ receipt'[a].status = "retracted" /\ \A b \in Actions : Calm(b)
  BY <1>1, <1>3, <1>4, RowsUndo
<1>6. PICK g \in SUBSET Members : g = gone[s]
  BY <1>2 DEF SweepTypeOK
<1>7. gone' = [gone EXCEPT ![s] = g] /\ gone[s] \subseteq g
  BY <1>1, <1>2, <1>6 DEF SweepTypeOK
<1>8. receipt'[Receipt(s, k)].status # "applied" /\ k <= run[s].receipts
  BY <1>1, <1>3, <1>4, <1>5
<1> QED BY <1>1, <1>3, <1>5, <1>7, <1>8, UndoSteps

LEMMA UndoPassesSweep ==
  ASSUME SweepInv, NEW s \in Sweeps, UndoPasses(s)
  PROVE  SweepInv'
<1>1. /\ RowsInv /\ undoing[s] \in 1..run[s].receipts /\ ~Retractable(Receipt(s, undoing[s]))
      /\ undoing' = [undoing EXCEPT ![s] = undoing[s] + 1]
      /\ gone' = [gone EXCEPT ![s] = gone[s] \cup (receipt[Receipt(s, undoing[s])].on \ available)]
      /\ UNCHANGED <<vars, preview, job, run>>
  BY DEF SweepInv, UndoPasses
<1>2. /\ SweepTypeOK /\ run[s].receipts \in 0..Len(Order) /\ undoing[s] \in Nat
  BY DEF SweepInv, SweepTypeOK, Runs
<1>3. PICK k \in Threads : k = undoing[s]
  BY <1>1, <1>2, ThreadsFinite
<1>4. PICK a \in Actions : a = Receipt(s, k)
  BY ReceiptIds
<1>5. RowsInv' /\ \A b \in Actions : Calm(b)
  BY <1>1 DEF RowsInv, TypeOK, RevisionsCountWrites, ReceiptsStand, Calm, vars, rowVars
<1>6. receipt[a].on \subseteq Members
  BY <1>1 DEF RowsInv, TypeOK, Receipts
<1>7. PICK g \in SUBSET Members : g = gone[s] \cup (receipt[a].on \ available)
  BY <1>2, <1>6 DEF SweepTypeOK
<1>8. gone' = [gone EXCEPT ![s] = g] /\ gone[s] \subseteq g /\ gone'[s] = g
  BY <1>1, <1>2, <1>3, <1>4, <1>7 DEF SweepTypeOK
<1>9. ASSUME receipt[a].status = "applied"
      PROVE  \E m \in receipt[a].on : writer[m] # {a} \/ m \in g
  <2>1. CASE ~(receipt[a].on \subseteq available)
    BY <1>7, <2>1
  <2>2. CASE receipt[a].on \subseteq available
    <3>1. PICK m \in receipt[a].on : state[m].revision # receipt[a].saved[m]
      BY <1>1, <1>3, <1>4, <1>9, <2>2 DEF Retractable
    <3>2. state[m].revision = version[m] + 1 /\ (writer[m] = {a} <=> receipt[a].saved[m] = version[m] + 1)
      BY <1>1, <1>6, <1>9 DEF RowsInv, RevisionsCountWrites, ReceiptsStand
    <3> QED BY <3>1, <3>2
  <2> QED BY <2>1, <2>2
<1>10. receipt' = receipt /\ writer' = writer
  BY <1>1 DEF vars, rowVars
<1>11. receipt'[Receipt(s, k)].status = "applied" => Passed(s, k)'
  BY <1>4, <1>8, <1>9, <1>10 DEF Passed
<1>12. k <= run[s].receipts
  BY <1>1, <1>3
<1> QED BY <1>1, <1>3, <1>5, <1>8, <1>11, <1>12, UndoSteps

----------------------------------------------------------------------------
(* The theorems. *)

\* SweepInv is inductive.
LEMMA NextSweep == SweepInv /\ [SweepNext]_sweepVars => SweepInv'
<1> SUFFICES ASSUME SweepInv, [SweepNext]_sweepVars PROVE SweepInv'
  OBVIOUS
<1>1. CASE Client \/ Others
  BY <1>1, ClientSweep, OthersSweep
<1>2. CASE UNCHANGED sweepVars
  <2>1. UNCHANGED <<vars, preview, job, run, undoing, gone>>
    BY <1>2 DEF sweepVars, zeroVars
  <2>2. SweepTypeOK' /\ RowsInv' /\ \A a \in Actions : Calm(a)
    BY <2>1 DEF SweepInv, SweepTypeOK, RowsInv, TypeOK, RevisionsCountWrites, ReceiptsStand, Calm, vars, rowVars
  <2>3. ASSUME NEW s \in Sweeps PROVE PreviewIsAnchored(s)' /\ JobAddsUp(s)' /\ ReceiptsAddUp(s)' /\ RunFollows(s)'
    BY <2>1, <2>2, ReceiptIds, SweepFrame
  <2> QED BY <2>2, <2>3 DEF SweepInv
<1>3. ASSUME NEW s \in Sweeps,
             \/ Preview(s) \/ ApplyBegins(s)
             \/ BatchSent(s) \/ BatchMoved(s) \/ SingleSent(s) \/ SingleMoved(s)
             \/ Abandoned(s) \/ Recorded(s)
      PROVE  SweepInv'
  BY <1>3, PreviewSweep, ApplyBeginsSweep, BatchSentSweep, BatchMovedSweep, SingleSentSweep, SingleMovedSweep,
     AbandonedSweep, RecordedSweep
<1>4. ASSUME NEW s \in Sweeps,
             UndoBegins(s) \/ UndoTakesBack(s) \/ UndoPasses(s) \/ UndoRecorded(s) \/ UndoAbandoned(s)
      PROVE  SweepInv'
  BY <1>4, UndoBeginsSweep, UndoTakesBackSweep, UndoPassesSweep, UndoRecordedSweep, UndoAbandonedSweep
<1> QED BY <1>1, <1>2, <1>3, <1>4 DEF SweepNext

\* In every state previews are anchored to the rows they were read from, every conversation of a
\* preview is accounted for, and receipts and runs add up (all of zero-sweep.ts).
THEOREM SweepInvariant == SweepSpec => []SweepInv
<1>1. SweepInit => SweepInv
  BY InitSweep
<1>2. SweepInv /\ [SweepNext]_sweepVars => SweepInv'
  BY NextSweep
<1> QED BY <1>1, <1>2, PTL DEF SweepSpec

\* The receipts and the recorded run of a sweep say what was done: whole conversations, counted as
\* they are held, and undone when the run says so (apply's flush, the recorded row, undo).
THEOREM RunsTellTheTruth == SweepSpec => []RunsAreTrue
<1>1. SweepInv => RunsAreTrue
  <2> SUFFICES ASSUME SweepInv PROVE RunsAreTrue
    OBVIOUS
  <2>1. SweepTypeOK /\ \A s \in Sweeps : PreviewIsAnchored(s) /\ JobAddsUp(s) /\ ReceiptsAddUp(s) /\ RunFollows(s)
    BY DEF SweepInv
  <2>2. ReceiptsHoldWholeTargets
    <3> SUFFICES ASSUME NEW s \in Sweeps, NEW n \in Threads, NEW c \in Threads
                 PROVE  receipt[Receipt(s, n)].on \cap preview[s][c].on \in {{}, preview[s][c].on}
      BY DEF ReceiptsHoldWholeTargets
    <3>1. PICK cs \in SUBSET Threads : receipt[Receipt(s, n)].on = Targets(s, cs)
      BY <2>1 DEF ReceiptsAddUp
    <3>2. CASE c \in cs
      <4>1. preview[s][c].on \subseteq Targets(s, cs)
        BY <3>2 DEF Targets
      <4> QED BY <3>1, <4>1
    <3>3. CASE c \notin cs
      <4>1. \A d \in cs : preview[s][d].on \cap preview[s][c].on = {}
        BY <2>1, <3>3, MembersOfThreads DEF PreviewIsAnchored
      <4>2. Targets(s, cs) \cap preview[s][c].on = {}
        BY <4>1 DEF Targets
      <4> QED BY <3>1, <4>2
    <3> QED BY <3>2, <3>3
  <2>3. RunsAreAccurate
    <3> SUFFICES ASSUME NEW s \in Sweeps, run[s].status # "none"
                 PROVE  /\ \A n \in Threads : n <= run[s].receipts <=> receipt[Receipt(s, n)].status # "none"
                        /\ UNION {receipt[Receipt(s, n)].on : n \in Threads} = Targets(s, run[s].counted)
                        /\ run[s].counted \cap run[s].skipped = {}
                        /\ run[s].counted \cup run[s].skipped = {c \in Threads : preview[s][c].on # {}}
      BY DEF RunsAreAccurate
    <3>1. /\ job[s].todo = {} /\ job[s].batch = {}
          /\ run[s].receipts = job[s].receipts /\ run[s].counted = job[s].counted /\ run[s].skipped = job[s].skipped
      BY <2>1 DEF RunFollows
    <3>2. ASSUME NEW n \in Threads PROVE n <= run[s].receipts <=> receipt[Receipt(s, n)].status # "none"
      <4>1. receipt[Receipt(s, n)].status = "none" <=> n > job[s].receipts
        BY <2>1 DEF ReceiptsAddUp
      <4>2. n \in Nat /\ job[s].receipts \in Nat
        BY <2>1, ThreadsFinite DEF SweepTypeOK, Jobs
      <4> QED BY <3>1, <4>1, <4>2
    <3>3. UNION {receipt[Receipt(s, n)].on : n \in Threads} = Targets(s, run[s].counted)
      BY <2>1, <3>1 DEF ReceiptsAddUp
    <3>4. /\ run[s].counted \cap run[s].skipped = {}
          /\ run[s].counted \cup run[s].skipped = {c \in Threads : preview[s][c].on # {}}
      BY <2>1, <3>1 DEF JobAddsUp
    <3> QED BY <3>2, <3>3, <3>4
  <2>4. UndoneRunsHoldNothing
    BY <2>1 DEF UndoneRunsHoldNothing, RunFollows, Passed
  <2> QED BY <2>1, <2>2, <2>3, <2>4 DEF RunsAreTrue
<1> QED BY <1>1, SweepInvariant, PTL

\* The receipts of sweeps are applied by calls that sweeps send, and by nothing else.
LEMMA AppliedBySending ==
  ASSUME SweepInv, [SweepNext]_sweepVars, NEW a \in Actions \ Clients, JustApplied(a)
  PROVE  \E s \in Sweeps, cs \in SUBSET Threads, n \in Threads : a = Receipt(s, n) /\ SentAs(s, cs, n)
<1>1. ~Calm(a) /\ receipt'[a] # receipt[a]
  BY DEF Calm, JustApplied
<1>2. CASE \E s \in Sweeps : BatchSent(s) \/ SingleSent(s)
  <2>1. PICK s \in Sweeps : \E cs \in SUBSET Threads, n \in Threads : SentAs(s, cs, n)
    BY <1>2, BatchSentSweep, SingleSentSweep
  <2>2. PICK cs \in SUBSET Threads, n \in Threads : SentAs(s, cs, n)
    BY <2>1
  <2>3. a = Receipt(s, n)
    BY <1>1, <2>2 DEF SentAs
  <2> QED BY <2>2, <2>3
<1>3. CASE Client \/ Others
  <2>1. PICK s \in Sweeps, n \in Threads : a = Receipt(s, n)
    BY DEF Clients, Receipt
  <2> QED BY <1>1, <1>3, <2>1, RowsClient, RowsOthers DEF SweepInv
<1>4. ASSUME NEW s \in Sweeps, UndoTakesBack(s) PROVE FALSE
  <2>1. UndoStates(Receipt(s, undoing[s])) /\ undoing[s] \in 1..run[s].receipts
    BY <1>4 DEF UndoTakesBack
  <2>2. undoing[s] \in Threads
    BY <2>1, ThreadsFinite DEF SweepInv, SweepTypeOK, Runs
  <2>3. PICK b \in Actions : b = Receipt(s, undoing[s])
    BY <2>2, ReceiptIds
  <2>4. receipt \in [Actions -> Receipts] /\ receipt' = [receipt EXCEPT ![b].status = "retracted"]
    BY <2>1, <2>3 DEF UndoStates, SweepInv, RowsInv, TypeOK
  <2>5. receipt'[b].status = "retracted" /\ (a # b => receipt'[a] = receipt[a])
    BY <2>4 DEF Receipts
  <2> QED BY <1>1, <2>5 DEF JustApplied
<1>5. CASE UNCHANGED receipt
  BY <1>1, <1>5
<1> QED BY <1>2, <1>3, <1>4, <1>5
        DEF SweepNext, sweepVars, vars, Preview, ApplyBegins, BatchMoved, SingleMoved, Abandoned, Recorded, UndoBegins,
            UndoPasses, UndoRecorded, UndoAbandoned

\* A sweep marks nothing Done that was written, or whose mail changed, since the preview (apply).
THEOREM SweepIsConditional == SweepSpec => SweepForcesNothing
<1>1. ASSUME SweepInv, [SweepNext]_sweepVars, NEW s \in Sweeps, NEW n \in Threads, JustApplied(Receipt(s, n)),
             NEW m \in receipt'[Receipt(s, n)].on
      PROVE  /\ version[m] = preview[s][OwnerOf(m)].version[m]
             /\ mail[m] = preview[s][OwnerOf(m)].mail[m]
  <2>1. PICK t \in Sweeps, cs \in SUBSET Threads, k \in Threads : Receipt(s, n) = Receipt(t, k) /\ SentAs(t, cs, k)
    <3>1. Receipt(s, n) \in Actions \ Clients
      BY ReceiptIds DEF Clients, Receipt
    <3> QED BY <1>1, <3>1, AppliedBySending
  <2>2. s = t /\ n = k
    BY <2>1, ReceiptIds
  <2>3. SentAs(s, cs, n)
    BY <2>1, <2>2
  <2>4. m \in Targets(s, cs)
    BY <1>1, <2>3 DEF SentAs
  <2>5. PICK c \in cs : m \in preview[s][c].on
    BY <2>4 DEF Targets
  <2>6. /\ m \in MembersOf(c) /\ preview[s][c].revision[m] = preview[s][c].version[m] + 1 /\ preview[s][c].mail[m] # 0
        /\ c \in Threads
    BY <1>1, <2>5 DEF SweepInv, PreviewIsAnchored
  <2>7. m \in Members
    BY <2>6, MembersOfThreads
  <2>8. OwnerOf(m) = c
    <3>1. \A d \in Threads : m \in MembersOf(d) => d = c
      BY <2>6, MembersOfThreads
    <3> QED BY <2>6, <3>1 DEF OwnerOf
  <2>9. PICK d : d = DoneCommand(s, cs)
    OBVIOUS
  <2>10. UpToDate(d)
    BY <2>3, <2>9 DEF SentAs, Sent, Perform
  <2>11. d.on = Targets(s, cs) /\ d.revision[m] = preview[s][c].revision[m] /\ d.mail[m] = preview[s][c].mail[m]
    BY <2>4, <2>7, <2>8, <2>9 DEF DoneCommand
  <2>12. state[m].revision = preview[s][c].revision[m] /\ preview[s][c].mail[m] \in {0, mail[m]}
    BY <2>4, <2>10, <2>11 DEF UpToDate
  <2>13. state[m].revision = version[m] + 1 /\ version[m] \in Nat /\ preview[s][c].version[m] \in Nat
    <3>1. preview[s][c] \in Captured
      BY <1>1, <2>6 DEF SweepInv, SweepTypeOK
    <3> QED BY <1>1, <2>7, <3>1 DEF SweepInv, RowsInv, TypeOK, RevisionsCountWrites, Captured
  <2> QED BY <2>6, <2>8, <2>12, <2>13
<1>2. SweepInv /\ [SweepNext]_sweepVars
        => [\A s \in Sweeps, n \in Threads : JustApplied(Receipt(s, n)) =>
              \A m \in receipt'[Receipt(s, n)].on :
                /\ version[m] = preview[s][OwnerOf(m)].version[m]
                /\ mail[m] = preview[s][OwnerOf(m)].mail[m]]_sweepVars
  BY <1>1
<1> QED BY <1>2, SweepInvariant, PTL DEF SweepSpec, SweepForcesNothing

\* The undo of a sweep only takes back what still stands as the sweep left it (undo over
\* undoMailboxStates): the guarantee of MailboxStates holds in the composition.
THEOREM SweepUndoIsGuarded == SweepSpec => UndoOverwritesNothing
<1>1. ASSUME SweepInv, [SweepNext]_sweepVars, NEW a \in Actions, JustRetracted(a), NEW m \in receipt[a].on
      PROVE  writer[m] = {a}
  <2>1. receipt'[a] # receipt[a] /\ receipt[a].status = "applied" /\ receipt'[a].status = "retracted"
    BY <1>1 DEF JustRetracted
  <2>2. ASSUME NEW b \in Actions, UndoStates(b)
        PROVE  state[m].revision = receipt[a].saved[m]
    <3>1. /\ receipt \in [Actions -> Receipts] /\ receipt' = [receipt EXCEPT ![b].status = "retracted"]
          /\ \A k \in receipt[b].on : state[k].revision = receipt[b].saved[k]
      BY <1>1, <2>2 DEF UndoStates, Retractable, SweepInv, RowsInv, TypeOK
    <3>2. a = b
      BY <2>1, <3>1
    <3> QED BY <1>1, <3>1, <3>2
  <2>3. ASSUME NEW s \in Sweeps, UndoTakesBack(s)
        PROVE  \E b \in Actions : UndoStates(b)
    <3>1. UndoStates(Receipt(s, undoing[s])) /\ undoing[s] \in 1..run[s].receipts
      BY <2>3 DEF UndoTakesBack
    <3>2. undoing[s] \in Threads
      BY <1>1, <3>1, ThreadsFinite DEF SweepInv, SweepTypeOK, Runs
    <3> QED BY <3>1, <3>2, ReceiptIds
  <2>4. ASSUME Client
        PROVE  \E b \in Actions : UndoStates(b)
    <3>1. PICK b \in Clients : \/ \E ms \in SUBSET Shared, c \in Asked : Compose(b, ms, c.done, c.until, c.checked)
                               \/ Apply(b)
                               \/ Undo(b)
      BY <2>4 DEF Client
    <3>2. receipt \in [Actions -> Receipts] /\ b \in Actions
      BY <1>1 DEF SweepInv, RowsInv, TypeOK, Clients
    <3>3. Apply(b) => receipt'[b].status = "applied" /\ (a # b => receipt'[a] = receipt[a])
      BY <3>2 DEF Apply, Perform
    <3>4. ~Apply(b)
      BY <2>1, <3>3
    <3>5. Undo(b)
      BY <2>1, <3>1, <3>4 DEF Compose
    <3> QED BY <3>2, <3>5 DEF Undo
  <2>5. ASSUME NEW s \in Sweeps, BatchSent(s) \/ SingleSent(s) PROVE FALSE
    <3>1. PICK cs \in SUBSET Threads, n \in Threads : SentAs(s, cs, n)
      BY <1>1, <2>5, BatchSentSweep, SingleSentSweep
    <3>2. a # Receipt(s, n)
      BY <2>1, <3>1 DEF SentAs
    <3>3. PICK b \in Actions : b = Receipt(s, n)
      BY ReceiptIds
    <3>4. receipt' = [receipt EXCEPT ![b] = receipt'[b]] /\ receipt \in [Actions -> Receipts]
      BY <1>1, <3>1, <3>3 DEF SentAs, Sent, Perform, SweepInv, RowsInv, TypeOK
    <3> QED BY <2>1, <3>2, <3>3, <3>4
  <2>6. Others => receipt' = receipt
    BY DEF Others, SetState, MailChanges, Vanishes, Returns, WakeDue, Tick
  <2>7. \E b \in Actions : UndoStates(b)
    <3> SUFFICES ASSUME \A s \in Sweeps : ~UndoTakesBack(s), ~Client PROVE FALSE
      BY <2>3, <2>4
    <3>1. CASE UNCHANGED receipt
      BY <2>1, <3>1
    <3>2. CASE Others
      BY <2>1, <2>6, <3>2
    <3> QED BY <1>1, <2>5, <3>1, <3>2
    DEF SweepNext, sweepVars, vars, Preview, ApplyBegins, BatchMoved, SingleMoved, Abandoned, Recorded, UndoBegins,
        UndoPasses, UndoRecorded, UndoAbandoned
  <2>8. state[m].revision = receipt[a].saved[m] /\ m \in Members
    BY <1>1, <2>2, <2>7 DEF SweepInv, RowsInv, TypeOK, Receipts
  <2>9. /\ state[m].revision = version[m] + 1
        /\ writer[m] = {a} <=> receipt[a].saved[m] = version[m] + 1
    BY <1>1, <2>1, <2>8 DEF SweepInv, RowsInv, RevisionsCountWrites, ReceiptsStand
  <2> QED BY <2>8, <2>9
<1>2. SweepInv /\ [SweepNext]_sweepVars
        => [\A a \in Actions : JustRetracted(a) => \A m \in receipt[a].on : writer[m] = {a}]_vars
  BY <1>1 DEF sweepVars
<1> QED BY <1>2, SweepInvariant, PTL DEF SweepSpec, UndoOverwritesNothing
=============================================================================
