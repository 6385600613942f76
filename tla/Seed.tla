-------------------------------- MODULE Seed --------------------------------
(***************************************************************************)
(* The seed program (cmd/seed): one transaction that inserts the chart of  *)
(* accounts, the roots first and then the children, skipping the ones that *)
(* are there. Several may run at once, and beside the server.              *)
(***************************************************************************)
EXTENDS AccountTable

CONSTANTS
  Seeders,  \* runs of the program
  Chart     \* baseCoA: [id, type, currency, parent] in order; a code is an id here

NoParent == 0

ASSUME ChartAssumption ==
  /\ Chart \in Seq([id : ChartIds, type : AccountTypes, currency : Currencies,
                    parent : ChartIds \cup {NoParent}])
  /\ NoParent \notin Ids

VARIABLES
  seedPc,  \* what a run is about to do
  todo,    \* the accounts it has yet to ensure, by their index in Chart
  drafted  \* the accounts it has inserted and not committed

seedVars == <<seedPc, todo, drafted>>

SeedTypes ==
  /\ seedPc \in [Seeders -> {"idle", "parent", "exists", "insert", "commit",
                         "done", "fatal"}]
  /\ todo \in [Seeders -> SUBSET DOMAIN Chart]
  /\ drafted \in [Seeders -> SUBSET ChartIds]

SeedInit ==
  /\ seedPc = [s \in Seeders |-> "idle"]
  /\ todo = [s \in Seeders |-> {}]
  /\ drafted = [s \in Seeders |-> {}]

SeedGoto(s, label) == seedPc' = [seedPc EXCEPT ![s] = label]

\* What s can read: committed rows and its own.
Visible(s, a) == Exists(a) \/ a \in drafted[s]

\* The order of the two loops of main: the roots, then the others.
Before(i, j) ==
  LET root(k) == Chart[k].parent = NoParent
  IN  \/ root(i) /\ ~root(j)
      \/ (root(i) <=> root(j)) /\ i < j

\* It is the turn of the i-th account of the chart.
IsNext(s, i) == i \in todo[s] /\ \A j \in todo[s] \ {i} : Before(i, j)

\* On to the accounts of rest: a root has no parent to load.
GoOn(s, rest) ==
  /\ todo' = [todo EXCEPT ![s] = rest]
  /\ SeedGoto(s, IF rest = {} THEN "commit"
                 ELSE IF \E i \in rest : Chart[i].parent = NoParent THEN "exists" ELSE "parent")

\* pool.Begin, and the first account.
BeginSeed(s) ==
  /\ seedPc[s] = "idle"
  /\ GoOn(s, DOMAIN Chart)
  /\ UNCHANGED <<tableVars, drafted, faults>>

\* log.Fatalf ends the process, and the database rolls back.
Fatal(s) ==
  /\ drafted' = [drafted EXCEPT ![s] = {}]
  /\ todo' = [todo EXCEPT ![s] = {}]
  /\ SeedGoto(s, "fatal")
  /\ UNCHANGED account

\* getAccountIDByCode of the parent.
LoadParent(s, i) ==
  /\ seedPc[s] = "parent" /\ IsNext(s, i)
  /\ \/ /\ Succeeds
        /\ IF Visible(s, Chart[i].parent)
           THEN SeedGoto(s, "exists") /\ UNCHANGED <<account, todo, drafted>>
           ELSE Fatal(s)
     \/ Fault("db") /\ Fatal(s)
  /\ UNCHANGED rowLock

\* accountExistsByCode: an account that is there is skipped.
CheckExists(s, i) ==
  /\ seedPc[s] = "exists" /\ IsNext(s, i)
  /\ \/ /\ Succeeds /\ Visible(s, Chart[i].id)
        /\ GoOn(s, todo[s] \ {i}) /\ UNCHANGED <<account, drafted>>
     \/ /\ Succeeds /\ ~Visible(s, Chart[i].id)
        /\ SeedGoto(s, "insert") /\ UNCHANGED <<account, todo, drafted>>
     \/ Fault("db") /\ Fatal(s)
  /\ UNCHANGED rowLock

SeedRow(a) ==
  LET c == CHOOSE c \in {Chart[i] : i \in DOMAIN Chart} : c.id = a
  IN  NewAccount(c.type, c.currency)

\* Mutant: the INSERT runs on the pool and commits by itself.
InsertAtOnce(s, i) ==
  LET a == Chart[i].id
  IN  /\ seedPc[s] = "insert" /\ IsNext(s, i) /\ ~Exists(a)
      /\ \/ /\ Succeeds
            /\ account' = WithRows([b \in {a} |-> SeedRow(b)])
            /\ GoOn(s, todo[s] \ {i}) /\ UNCHANGED drafted
         \/ Fault("db") /\ Fatal(s)
      /\ UNCHANGED rowLock

\* Mutant: after a unique violation the account is inserted again.
InsertAgain(s) == UNCHANGED <<account, seedVars>>

UniqueViolation(s) == Fatal(s)

\* insertAccount: the unique index on the code waits for another run's uncommitted
\* row and refuses a committed one.
InsertChartAccount(s, i) ==
  LET a == Chart[i].id
  IN  /\ seedPc[s] = "insert" /\ IsNext(s, i)
      /\ \/ /\ Succeeds /\ ~Exists(a)
            /\ \A q \in Seeders : a \notin drafted[q]
            /\ drafted' = [drafted EXCEPT ![s] = @ \cup {a}]
            /\ GoOn(s, todo[s] \ {i}) /\ UNCHANGED account
         \/ Succeeds /\ Exists(a) /\ UniqueViolation(s)
         \/ Fault("db") /\ Fatal(s)
      /\ UNCHANGED rowLock

CommitSeed(s) ==
  /\ seedPc[s] = "commit"
  /\ \/ /\ account' = WithRows([a \in drafted[s] |-> SeedRow(a)])
        /\ drafted' = [drafted EXCEPT ![s] = {}]
        /\ \/ SeedGoto(s, "done") /\ Succeeds
           \/ SeedGoto(s, "fatal") /\ Fault("lostAck")
        /\ UNCHANGED todo
     \/ Fault("db") /\ Fatal(s)
  /\ UNCHANGED rowLock

SeedStep(s) ==
  \/ \E i \in DOMAIN Chart : LoadParent(s, i) \/ CheckExists(s, i) \/ InsertChartAccount(s, i)
  \/ CommitSeed(s)

SeedNext == \E s \in Seeders : BeginSeed(s) \/ SeedStep(s)

-----------------------------------------------------------------------------
\* The chart is there as a whole or not at all, whichever of two runs wins and
\* wherever one dies.
ChartIsWhole ==
  LET seeded == {Chart[i].id : i \in DOMAIN Chart}
  IN  seeded \subseteq DOMAIN account \/ seeded \cap DOMAIN account = {}
=============================================================================
