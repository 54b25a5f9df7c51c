--------------------------- MODULE BackupsProofs ----------------------------
(***************************************************************************)
(* Proofs about Backups and Upgrade, for any number of overlapping runs,   *)
(* any schema version, retention limit and clock.                          *)
(***************************************************************************)
EXTENDS Upgrade, FiniteSetTheorems, WellFoundedInduction, TLAPS

(***************************************************************************)
(* Backups alone and Backups with upgrades start in databases of different *)
(* kinds, and without upgrade steps nobody is inside a transaction: both   *)
(* are behaviours of what follows, about which everything is proved.       *)
(***************************************************************************)
AnyInit ==
    /\ clock = 0
    /\ active \in Content /\ active.state \in {"absent", "whole"}
    /\ files \in [Names -> Content]
    /\ \A n \in Names : Exists(n) => n.kind = "manual"
    /\ run = [r \in Runs |-> Idle]

AnySpec == AnyInit /\ [][UpgradeNext]_vars

-----------------------------------------------------------------------------
(* Rows *)

Pcs == {"idle", "named", "touched", "copied", "sync", "generate", "list",
        "prune", "staging", "saved", "replaced", "rollback", "rolling",
        "preserving", "begin", "migrating", "done", "failed"}

Row == [pc : Pcs, name : Names \cup {NoName}, source : Names \cup {NoName},
        staged : Content, todo : SUBSET Names, verified : BOOLEAN,
        base : SUBSET Writes, mine : SUBSET Writes]

Typed ==
    /\ clock \in 0 .. MaxTime
    /\ active \in Content /\ files \in [Names -> Content]
    /\ run \in [Runs -> Row]

(***************************************************************************)
(* A step of run r: where it stands afterwards.  The others stay put.      *)
(***************************************************************************)
Moves(r, pc, name, source, staged, todo, verified, base, mine) ==
    /\ run'[r].pc = pc /\ run'[r].name = name /\ run'[r].source = source
    /\ run'[r].staged = staged /\ run'[r].todo = todo /\ run'[r].verified = verified
    /\ run'[r].base = base /\ run'[r].mine = mine
    /\ \A s \in Runs \ {r} : run'[s] = run[s]
    /\ run' \in [Runs -> Row]

Goes(r, pc) ==
    Moves(r, pc, run[r].name, run[r].source, run[r].staged, run[r].todo,
          run[r].verified, run[r].base, run[r].mine)

Ends(r, pc) ==
    Moves(r, pc, run[r].name, run[r].source, Absent, {},
          run[r].verified, run[r].base, run[r].mine)

Begins(r, pc, name, source, base) ==
    Moves(r, pc, name, source, Absent, {}, FALSE, base, {})

LEMMA RowSet ==
    ASSUME Typed, NEW r \in Runs, NEW x \in Row, run' = [run EXCEPT ![r] = x]
    PROVE  Moves(r, x.pc, x.name, x.source, x.staged, x.todo, x.verified, x.base, x.mine)
BY DEF Typed, Moves

LEMMA RowOf ==
    ASSUME Typed, NEW r \in Runs
    PROVE  /\ run[r] \in Row
           /\ run[r].pc \in Pcs /\ run[r].name \in Names \cup {NoName}
           /\ run[r].source \in Names \cup {NoName} /\ run[r].staged \in Content
           /\ run[r].todo \subseteq Names /\ run[r].verified \in BOOLEAN
           /\ run[r].base \subseteq Writes /\ run[r].mine \subseteq Writes
BY DEF Typed, Row

LEMMA Contents ==
    /\ Absent \in Content /\ Empty \in Content /\ Broken \in Content
    /\ \A W \in SUBSET Writes : Whole(W) \in Content
    /\ Absent.state = "absent" /\ Empty.state = "empty" /\ Broken.state = "broken"
    /\ Absent.writes = {} /\ Empty.writes = {} /\ Broken.writes = {}
    /\ \A W : /\ Whole(W).state = "whole" /\ Whole(W).writes = W
              /\ Whole(W).version = SchemaVersion
BY BackupConstants DEF Content, Blank, Absent, Empty, Broken, Whole, Outdated

LEMMA NoNameIsNone == NoName \notin Names
BY DEF NoName, Names

LEMMA GotoRow ==
    ASSUME Typed, NEW r \in Runs, NEW pc \in Pcs, Goto(r, pc)
    PROVE  Goes(r, pc)
<1> DEFINE x == [run[r] EXCEPT !.pc = pc]
<1>1. x \in Row /\ x.pc = pc
  BY RowOf DEF Row
<1>2. /\ x.name = run[r].name /\ x.source = run[r].source /\ x.staged = run[r].staged
      /\ x.todo = run[r].todo /\ x.verified = run[r].verified /\ x.base = run[r].base
      /\ x.mine = run[r].mine
  BY RowOf DEF Row
<1>3. run' = [run EXCEPT ![r] = x]
  BY DEF Goto
<1> HIDE DEF x
<1> QED
  BY <1>1, <1>2, <1>3, RowSet DEF Goes

LEMMA EndRow ==
    ASSUME Typed, NEW r \in Runs, NEW pc \in Pcs, End(r, pc)
    PROVE  Ends(r, pc)
<1> DEFINE x == [run[r] EXCEPT !.pc = pc, !.staged = Absent, !.todo = {}]
<1>1. x \in Row /\ x.pc = pc /\ x.staged = Absent /\ x.todo = {}
  BY RowOf, Contents DEF Row
<1>2. /\ x.name = run[r].name /\ x.source = run[r].source
      /\ x.verified = run[r].verified /\ x.base = run[r].base /\ x.mine = run[r].mine
  BY RowOf DEF Row
<1>3. run' = [run EXCEPT ![r] = x]
  BY DEF End, Typed
<1> HIDE DEF x
<1> QED
  BY <1>1, <1>2, <1>3, RowSet DEF Ends

LEMMA IdleRow ==
    /\ Idle \in Row /\ Idle.pc = "idle" /\ Idle.name = NoName /\ Idle.source = NoName
    /\ Idle.staged = Absent /\ Idle.todo = {} /\ Idle.verified = FALSE
    /\ Idle.base = {} /\ Idle.mine = {}
BY Contents DEF Idle, Row, Pcs

-----------------------------------------------------------------------------
(* What each step does to its run *)

LEMMA BackupStartRow ==
    ASSUME Typed, NEW r \in Runs, BackupStart(r)
    PROVE  /\ r \in Dailies \cup Copies /\ MayStart(r) /\ active.state # "absent"
           /\ UNCHANGED <<clock, active, files>>
           /\ \E n \in Available(IF r \in Dailies THEN "daily" ELSE "manual") :
                Begins(r, "named", n, NoName, active.writes)
<1>1. PICK n \in Available(IF r \in Dailies THEN "daily" ELSE "manual") :
        run' = [run EXCEPT ![r] = [Idle EXCEPT !.pc = "named", !.name = n,
                                               !.base = active.writes]]
  BY DEF BackupStart
<1> DEFINE x == [Idle EXCEPT !.pc = "named", !.name = n, !.base = active.writes]
<1>2. n \in Names /\ active.writes \subseteq Writes
  BY DEF Available, Typed, Content
<1>3. x \in Row /\ x.pc = "named" /\ x.name = n /\ x.base = active.writes
  BY <1>2, IdleRow DEF Row, Pcs
<1>4. /\ x.source = NoName /\ x.staged = Absent /\ x.todo = {} /\ x.verified = FALSE
      /\ x.mine = {}
  BY IdleRow DEF Row
<1>5. run' = [run EXCEPT ![r] = x]
  BY <1>1
<1> HIDE DEF x
<1>6. Begins(r, "named", n, NoName, active.writes)
  BY <1>3, <1>4, <1>5, RowSet DEF Begins
<1> QED
  BY <1>6 DEF BackupStart

LEMMA RestoreStartRow ==
    ASSUME Typed, NEW r \in Restores, RestoreStart(r)
    PROVE  /\ MayStart(r) /\ UNCHANGED <<clock, active, files>>
           /\ \E n \in Names : Healthy(files[n]) /\ Begins(r, "staging", NoName, n, {})
<1>1. PICK n \in Names :
        /\ Healthy(files[n])
        /\ run' = [run EXCEPT ![r] = [Idle EXCEPT !.pc = "staging", !.source = n]]
  BY DEF RestoreStart
<1> DEFINE x == [Idle EXCEPT !.pc = "staging", !.source = n]
<1>2. x \in Row /\ x.pc = "staging" /\ x.source = n
  BY <1>1, IdleRow DEF Row, Pcs
<1>3. /\ x.name = NoName /\ x.staged = Absent /\ x.todo = {} /\ x.verified = FALSE
      /\ x.base = {} /\ x.mine = {}
  BY IdleRow DEF Row
<1>4. run' = [run EXCEPT ![r] = x] /\ r \in Runs
  BY <1>1 DEF Runs
<1> HIDE DEF x
<1>5. Begins(r, "staging", NoName, n, {})
  BY <1>2, <1>3, <1>4, RowSet DEF Begins
<1> QED
  BY <1>1, <1>5 DEF RestoreStart

LEMMA UpgradeStartRow ==
    ASSUME Typed, NEW u \in Upgrades, UpgradeStart(u)
    PROVE  /\ MayStart(u) /\ UNCHANGED <<clock, active, files>>
           /\ \/ active.state = "absent" /\ Begins(u, "begin", NoName, NoName, {})
              \/ /\ active.state \in {"empty", "whole"} /\ ~Current(active)
                 /\ \E n \in Available("bak") : Begins(u, "preserving", n, NoName, {})
<1>0. u \in Runs
  BY DEF Runs
<1>1. CASE active.state = "absent" /\ run' = [run EXCEPT ![u] = [Idle EXCEPT !.pc = "begin"]]
  <2> DEFINE x == [Idle EXCEPT !.pc = "begin"]
  <2>1. x \in Row /\ x.pc = "begin"
    BY IdleRow DEF Row, Pcs
  <2>2. /\ x.name = NoName /\ x.source = NoName /\ x.staged = Absent /\ x.todo = {}
        /\ x.verified = FALSE /\ x.base = {} /\ x.mine = {}
    BY IdleRow DEF Row
  <2>3. run' = [run EXCEPT ![u] = x]
    BY <1>1
  <2> HIDE DEF x
  <2>4. Begins(u, "begin", NoName, NoName, {})
    BY <1>0, <2>1, <2>2, <2>3, RowSet DEF Begins
  <2> QED
    BY <1>1, <2>4 DEF UpgradeStart
<1>2. ASSUME NEW n \in Available("bak"),
             run' = [run EXCEPT ![u] = [Idle EXCEPT !.pc = "preserving", !.name = n]]
      PROVE  Begins(u, "preserving", n, NoName, {})
  <2> DEFINE x == [Idle EXCEPT !.pc = "preserving", !.name = n]
  <2>1. n \in Names
    BY DEF Available
  <2>2. x \in Row /\ x.pc = "preserving" /\ x.name = n
    BY <2>1, IdleRow DEF Row, Pcs
  <2>3. /\ x.source = NoName /\ x.staged = Absent /\ x.todo = {} /\ x.verified = FALSE
        /\ x.base = {} /\ x.mine = {}
    BY IdleRow DEF Row
  <2>4. run' = [run EXCEPT ![u] = x]
    BY <1>2
  <2> HIDE DEF x
  <2> QED
    BY <1>0, <2>2, <2>3, <2>4, RowSet DEF Begins
<1> QED
  BY <1>1, <1>2 DEF UpgradeStart

LEMMA BackupVerifyRow ==
    ASSUME Typed, NEW r \in Runs, BackupVerify(r)
    PROVE  Moves(r, IF r \in Dailies THEN "sync" ELSE IF r \in Copies THEN "done" ELSE "saved",
                 run[r].name, run[r].source, run[r].staged, run[r].todo, TRUE,
                 run[r].base, run[r].mine)
<1> DEFINE pc == IF r \in Dailies THEN "sync" ELSE IF r \in Copies THEN "done" ELSE "saved"
           x == [run[r] EXCEPT !.verified = TRUE, !.pc = pc]
<1>1. pc \in Pcs
  BY DEF Pcs
<1>2. run' = [run EXCEPT ![r] = x]
  BY DEF BackupVerify, Typed
<1> HIDE DEF pc
<1>3. x \in Row /\ x.pc = pc /\ x.verified = TRUE
  BY <1>1, RowOf DEF Row
<1>4. /\ x.name = run[r].name /\ x.source = run[r].source /\ x.staged = run[r].staged
      /\ x.todo = run[r].todo /\ x.base = run[r].base /\ x.mine = run[r].mine
  BY RowOf DEF Row
<1> HIDE DEF x
<1> QED
  BY <1>2, <1>3, <1>4, RowSet DEF pc

LEMMA DailySyncRow ==
    ASSUME Typed, NEW d \in Dailies, DailySync(d)
    PROVE  \E w \in Writes \ active.writes :
             /\ active' = Whole(active.writes \cup {w}) /\ active' \in Content
             /\ Moves(d, run[d].pc, run[d].name, run[d].source, run[d].staged, run[d].todo,
                      run[d].verified, run[d].base, run[d].mine \cup {w})
<1>1. PICK w \in Writes \ active.writes :
        /\ active' = Whole(active.writes \cup {w})
        /\ run' = [run EXCEPT ![d].mine = @ \cup {w}]
  BY DEF DailySync
<1> DEFINE x == [run[d] EXCEPT !.mine = run[d].mine \cup {w}]
<1>2. d \in Runs
  BY DEF Runs
<1>3. x \in Row /\ x.mine = run[d].mine \cup {w}
  BY <1>1, <1>2, RowOf DEF Row
<1>4. /\ x.pc = run[d].pc /\ x.name = run[d].name /\ x.source = run[d].source
      /\ x.staged = run[d].staged /\ x.todo = run[d].todo /\ x.verified = run[d].verified
      /\ x.base = run[d].base
  BY <1>2, RowOf DEF Row
<1>5. run' = [run EXCEPT ![d] = x]
  BY <1>1, <1>2 DEF Typed
<1>6. active' \in Content
  BY <1>1, Contents DEF Typed, Content
<1> HIDE DEF x
<1>7. Moves(d, run[d].pc, run[d].name, run[d].source, run[d].staged, run[d].todo,
            run[d].verified, run[d].base, run[d].mine \cup {w})
  BY <1>2, <1>3, <1>4, <1>5, RowSet
<1> QED
  BY <1>1, <1>6, <1>7

LEMMA DailyGenerateRow ==
    ASSUME Typed, NEW d \in Dailies, DailyGenerate(d)
    PROVE  \E W \in SUBSET (Writes \ active.writes) :
             /\ active' = Whole(active.writes \cup W) /\ active' \in Content
             /\ Moves(d, "list", run[d].name, run[d].source, run[d].staged, run[d].todo,
                      run[d].verified, run[d].base, run[d].mine \cup W)
<1>1. PICK W \in {{}} \cup {{w} : w \in Writes \ active.writes} :
        /\ active' = Whole(active.writes \cup W)
        /\ run' = [run EXCEPT ![d].pc = "list", ![d].mine = @ \cup W]
  BY DEF DailyGenerate
<1> DEFINE x == [run[d] EXCEPT !.pc = "list", !.mine = run[d].mine \cup W]
<1>2. d \in Runs /\ W \in SUBSET (Writes \ active.writes)
  BY <1>1 DEF Runs
<1>3. x \in Row /\ x.pc = "list" /\ x.mine = run[d].mine \cup W
  BY <1>2, RowOf DEF Row, Pcs
<1>4. /\ x.name = run[d].name /\ x.source = run[d].source
      /\ x.staged = run[d].staged /\ x.todo = run[d].todo /\ x.verified = run[d].verified
      /\ x.base = run[d].base
  BY <1>2, RowOf DEF Row
<1>5. run' = [run EXCEPT ![d] = x]
  BY <1>1, <1>2 DEF Typed
<1>6. active' \in Content
  BY <1>1, <1>2, Contents DEF Typed, Content
<1> HIDE DEF x
<1>7. Moves(d, "list", run[d].name, run[d].source, run[d].staged, run[d].todo,
            run[d].verified, run[d].base, run[d].mine \cup W)
  BY <1>2, <1>3, <1>4, <1>5, RowSet
<1> QED
  BY <1>1, <1>2, <1>6, <1>7

LEMMA DailyListRow ==
    ASSUME Typed, NEW d \in Dailies, DailyList(d)
    PROVE  Moves(d, "prune", run[d].name, run[d].source, run[d].staged,
                 ToDelete(run[d].name), run[d].verified, run[d].base, run[d].mine)
<1> DEFINE x == [run[d] EXCEPT !.pc = "prune", !.todo = ToDelete(run[d].name)]
<1>1. d \in Runs
  BY DEF Runs
<1>2. ToDelete(run[d].name) \subseteq Names
  BY DEF ToDelete, DailyFiles
<1>3. x \in Row /\ x.pc = "prune" /\ x.todo = ToDelete(run[d].name)
  BY <1>1, <1>2, RowOf DEF Row, Pcs
<1>4. /\ x.name = run[d].name /\ x.source = run[d].source
      /\ x.staged = run[d].staged /\ x.mine = run[d].mine /\ x.verified = run[d].verified
      /\ x.base = run[d].base
  BY <1>1, RowOf DEF Row
<1>5. run' = [run EXCEPT ![d] = x]
  BY <1>1 DEF DailyList, Typed
<1> HIDE DEF x
<1> QED
  BY <1>1, <1>3, <1>4, <1>5, RowSet

LEMMA DailyDeleteRow ==
    ASSUME Typed, NEW d \in Dailies, DailyDelete(d)
    PROVE  \E f \in run[d].todo :
             /\ \A g \in run[d].todo \ {f} : Newer(f, g)
             /\ Exists(f) /\ Store(f, Absent)
             /\ Moves(d, run[d].pc, run[d].name, run[d].source, run[d].staged,
                      run[d].todo \ {f}, run[d].verified, run[d].base, run[d].mine)
<1>1. PICK f \in run[d].todo :
        /\ \A g \in run[d].todo \ {f} : Newer(f, g)
        /\ Exists(f) /\ Store(f, Absent)
        /\ run' = [run EXCEPT ![d].todo = @ \ {f}]
  BY DEF DailyDelete
<1> DEFINE x == [run[d] EXCEPT !.todo = run[d].todo \ {f}]
<1>2. d \in Runs
  BY DEF Runs
<1>3. x \in Row /\ x.todo = run[d].todo \ {f}
  BY <1>2, RowOf DEF Row
<1>4. /\ x.pc = run[d].pc /\ x.name = run[d].name /\ x.source = run[d].source
      /\ x.staged = run[d].staged /\ x.mine = run[d].mine /\ x.verified = run[d].verified
      /\ x.base = run[d].base
  BY <1>2, RowOf DEF Row
<1>5. run' = [run EXCEPT ![d] = x]
  BY <1>1, <1>2 DEF Typed
<1> HIDE DEF x
<1>6. Moves(d, run[d].pc, run[d].name, run[d].source, run[d].staged,
            run[d].todo \ {f}, run[d].verified, run[d].base, run[d].mine)
  BY <1>2, <1>3, <1>4, <1>5, RowSet
<1> QED
  BY <1>1, <1>6

LEMMA RestoreStageRow ==
    ASSUME Typed, NEW r \in Restores, RestoreStage(r), run[r].source \in Names
    PROVE  LET candidate == files[run[r].source] IN
           \/ /\ active.state = "absent"
              /\ Moves(r, "saved", run[r].name, run[r].source, candidate, run[r].todo,
                       run[r].verified, run[r].base, run[r].mine)
           \/ /\ active.state # "absent"
              /\ \E n \in Available("safety") :
                   Moves(r, "named", n, run[r].source, candidate, run[r].todo,
                         run[r].verified, run[r].base, run[r].mine)
<1>1. r \in Runs
  BY DEF Runs
<1> DEFINE c == files[run[r].source]
<1>2. c \in Content
  BY DEF Typed
<1>3. CASE /\ active.state = "absent"
           /\ run' = [run EXCEPT ![r].pc = "saved", ![r].staged = c]
  <2> DEFINE x == [run[r] EXCEPT !.pc = "saved", !.staged = c]
  <2> HIDE DEF c
  <2>1. x \in Row /\ x.pc = "saved" /\ x.staged = c
    BY <1>1, <1>2, RowOf DEF Row, Pcs
  <2>2. /\ x.name = run[r].name /\ x.source = run[r].source /\ x.todo = run[r].todo
        /\ x.verified = run[r].verified /\ x.base = run[r].base /\ x.mine = run[r].mine
    BY <1>1, RowOf DEF Row
  <2>3. run' = [run EXCEPT ![r] = x]
    BY <1>1, <1>3 DEF Typed
  <2> HIDE DEF x
  <2>4. Moves(r, "saved", run[r].name, run[r].source, c, run[r].todo,
              run[r].verified, run[r].base, run[r].mine)
    BY <1>1, <2>1, <2>2, <2>3, RowSet
  <2> QED
    BY <1>3, <2>4 DEF c
<1>4. ASSUME NEW n \in Available("safety"),
             run' = [run EXCEPT ![r].pc = "named", ![r].name = n, ![r].staged = c]
      PROVE  Moves(r, "named", n, run[r].source, c, run[r].todo,
                   run[r].verified, run[r].base, run[r].mine)
  <2> DEFINE x == [run[r] EXCEPT !.pc = "named", !.name = n, !.staged = c]
  <2> HIDE DEF c
  <2>0. n \in Names
    BY DEF Available
  <2>1. x \in Row /\ x.pc = "named" /\ x.staged = c /\ x.name = n
    BY <1>1, <1>2, <2>0, RowOf DEF Row, Pcs
  <2>2. /\ x.source = run[r].source /\ x.todo = run[r].todo
        /\ x.verified = run[r].verified /\ x.base = run[r].base /\ x.mine = run[r].mine
    BY <1>1, RowOf DEF Row
  <2>3. run' = [run EXCEPT ![r] = x]
    BY <1>1, <1>4 DEF Typed
  <2> HIDE DEF x
  <2> QED
    BY <1>1, <2>1, <2>2, <2>3, RowSet
<1> QED
  BY <1>3, <1>4 DEF RestoreStage

LEMMA RollbackStageRow ==
    ASSUME Typed, NEW r \in Restores, RollbackStage(r), run[r].name \in Names
    PROVE  Moves(r, "rolling", run[r].name, run[r].source, files[run[r].name], run[r].todo,
                 run[r].verified, run[r].base, run[r].mine)
<1> DEFINE c == files[run[r].name]
           x == [run[r] EXCEPT !.pc = "rolling", !.staged = c]
<1>1. r \in Runs /\ c \in Content
  BY DEF Runs, Typed
<1>2. run' = [run EXCEPT ![r] = x]
  BY <1>1 DEF RollbackStage, Typed
<1> HIDE DEF c
<1>3. x \in Row /\ x.pc = "rolling" /\ x.staged = c
  BY <1>1, RowOf DEF Row, Pcs
<1>4. /\ x.name = run[r].name /\ x.source = run[r].source /\ x.todo = run[r].todo
      /\ x.verified = run[r].verified /\ x.base = run[r].base /\ x.mine = run[r].mine
  BY <1>1, RowOf DEF Row
<1> HIDE DEF x
<1>5. Moves(r, "rolling", run[r].name, run[r].source, c, run[r].todo,
            run[r].verified, run[r].base, run[r].mine)
  BY <1>1, <1>2, <1>3, <1>4, RowSet
<1> QED
  BY <1>5 DEF c

LEMMA UpgradeBeginRow ==
    ASSUME Typed, NEW u \in Upgrades, UpgradeBegin(u)
    PROVE  /\ active' = (IF active.state = "absent" THEN Empty ELSE active)
           /\ active' \in Content
           /\ Moves(u, "migrating", run[u].name, run[u].source, active', run[u].todo,
                    run[u].verified, run[u].base, run[u].mine)
<1> DEFINE c == IF active.state = "absent" THEN Empty ELSE active
           x == [run[u] EXCEPT !.pc = "migrating", !.staged = c]
<1>1. u \in Runs /\ c \in Content /\ active' = c
  BY Contents DEF Runs, Typed, UpgradeBegin
<1>2. run' = [run EXCEPT ![u] = x]
  BY <1>1 DEF UpgradeBegin, Typed
<1> HIDE DEF c
<1>3. x \in Row /\ x.pc = "migrating" /\ x.staged = c
  BY <1>1, RowOf DEF Row, Pcs
<1>4. /\ x.name = run[u].name /\ x.source = run[u].source /\ x.todo = run[u].todo
      /\ x.verified = run[u].verified /\ x.base = run[u].base /\ x.mine = run[u].mine
  BY <1>1, RowOf DEF Row
<1> HIDE DEF x
<1>5. Moves(u, "migrating", run[u].name, run[u].source, c, run[u].todo,
            run[u].verified, run[u].base, run[u].mine)
  BY <1>1, <1>2, <1>3, <1>4, RowSet
<1> QED
  BY <1>1, <1>5 DEF c

LEMMA UpgradeMigrateRow ==
    ASSUME Typed, NEW u \in Upgrades, UpgradeMigrate(u)
    PROVE  Moves(u, run[u].pc, run[u].name, run[u].source, Migrated(run[u].staged),
                 run[u].todo, run[u].verified, run[u].base, run[u].mine)
<1> DEFINE c == Migrated(run[u].staged)
           x == [run[u] EXCEPT !.staged = c]
<1>1. u \in Runs
  BY DEF Runs
<1>2. c \in Content
  <2>1. /\ run[u].staged.schema \in 0 .. SchemaVersion /\ run[u].staged.writes \subseteq Writes
        /\ run[u].staged.schema < SchemaVersion
    BY <1>1, RowOf DEF Content, UpgradeMigrate
  <2> QED
    BY <2>1, BackupConstants DEF Migrated, Outdated, Content
<1>3. run' = [run EXCEPT ![u] = x]
  BY <1>1 DEF UpgradeMigrate, Typed
<1> HIDE DEF c
<1>4. x \in Row /\ x.staged = c
  BY <1>1, <1>2, RowOf DEF Row
<1>5. /\ x.pc = run[u].pc /\ x.name = run[u].name /\ x.source = run[u].source
      /\ x.todo = run[u].todo /\ x.verified = run[u].verified /\ x.base = run[u].base
      /\ x.mine = run[u].mine
  BY <1>1, RowOf DEF Row
<1> HIDE DEF x
<1>6. Moves(u, run[u].pc, run[u].name, run[u].source, c, run[u].todo,
            run[u].verified, run[u].base, run[u].mine)
  BY <1>1, <1>3, <1>4, <1>5, RowSet
<1> QED
  BY <1>6 DEF c

-----------------------------------------------------------------------------
(* Types and names *)

KindOf(r) == IF r \in Dailies THEN "daily"
             ELSE IF r \in Copies THEN "manual"
             ELSE IF r \in Restores THEN "safety" ELSE "bak"

BackupAt  == {"named", "touched", "copied"}
DailyAt   == {"sync", "generate", "list", "prune"}
RestoreAt == {"staging", "saved", "replaced", "rollback", "rolling"}
UpgradeAt == {"preserving", "begin", "migrating"}

(***************************************************************************)
(* A run is at steps of its own command; it has named its file while it    *)
(* needs one, and that file is of the command's kind, so that no other     *)
(* command writes to it.                                                   *)
(***************************************************************************)
Fits(r) ==
    /\ run[r].pc \in BackupAt => r \in Dailies \cup Copies \cup Restores
    /\ run[r].pc \in DailyAt => r \in Dailies
    /\ run[r].pc \in RestoreAt => r \in Restores
    /\ run[r].pc \in UpgradeAt => r \in Upgrades
    /\ run[r].pc \in BackupAt \cup DailyAt \cup {"rollback", "rolling", "preserving"}
         => run[r].name \in Names
    /\ run[r].pc = "staging" => run[r].source \in Names
    /\ run[r].name \in Names => run[r].name.kind = KindOf(r)

Sound == Typed /\ \A r \in Runs : Fits(r)

LEMMA StoreFile ==
    ASSUME Typed, NEW n \in Names, NEW c \in Content, Store(n, c)
    PROVE  /\ files' \in [Names -> Content] /\ files'[n] = c
           /\ \A m \in Names \ {n} : files'[m] = files[m]
BY DEF Typed, Store

LEMMA KeepsSound ==
    ASSUME Sound, NEW r \in Runs, \A s \in Runs \ {r} : run'[s] = run[s],
           run' \in [Runs -> Row], Fits(r)',
           clock' \in 0 .. MaxTime, active' \in Content, files' \in [Names -> Content]
    PROVE  Sound'
BY DEF Sound, Typed, Fits

LEMMA KindsApart ==
    /\ \A r \in Dailies : r \in Runs /\ KindOf(r) = "daily"
    /\ \A r \in Copies : r \in Runs /\ KindOf(r) = "manual"
    /\ \A r \in Restores : r \in Runs /\ KindOf(r) = "safety"
    /\ \A r \in Upgrades : r \in Runs /\ KindOf(r) = "bak"
BY BackupConstants DEF KindOf, Runs

LEMMA BackupStepSound ==
    ASSUME Sound, NEW r \in Runs, BackupStep(r)
    PROVE  Sound'
<1> USE DEF Sound
<1>1. CASE BackupStart(r)
  <2>1. PICK n \in Available(IF r \in Dailies THEN "daily" ELSE "manual") :
          Begins(r, "named", n, NoName, active.writes)
    BY <1>1, BackupStartRow
  <2>2. UNCHANGED <<clock, active, files>> /\ r \in Dailies \cup Copies
    BY <1>1, BackupStartRow
  <2>3. n \in Names /\ n.kind = KindOf(r)
    BY <2>2, KindsApart DEF Available, KindOf
  <2>4. Fits(r)'
    BY <2>1, <2>2, <2>3 DEF Begins, Moves, Fits, BackupAt, DailyAt, RestoreAt, UpgradeAt
  <2> QED
    BY <2>1, <2>2, <2>4, KeepsSound DEF Begins, Moves, Typed
<1>2. CASE BackupTouch(r)
  <2>1. Goes(r, "touched") /\ run[r].pc = "named" /\ UNCHANGED <<clock, active>>
    BY <1>2, GotoRow DEF BackupTouch, Pcs
  <2>2. files' \in [Names -> Content]
    BY <1>2, <2>1, StoreFile, Contents DEF BackupTouch, Fits, BackupAt
  <2>3. Fits(r)'
    BY <2>1 DEF Goes, Moves, Fits, BackupAt, DailyAt, RestoreAt, UpgradeAt
  <2> QED
    BY <2>1, <2>2, <2>3, KeepsSound DEF Goes, Moves, Typed
<1>3. CASE BackupSnapshot(r)
  <2>1. Goes(r, "copied") /\ run[r].pc = "touched" /\ UNCHANGED <<clock, active>>
    BY <1>3, GotoRow DEF BackupSnapshot, Pcs
  <2>2. files' \in [Names -> Content]
    BY <1>3, <2>1, StoreFile DEF BackupSnapshot, Fits, BackupAt, Typed
  <2>3. Fits(r)'
    BY <2>1 DEF Goes, Moves, Fits, BackupAt, DailyAt, RestoreAt, UpgradeAt
  <2> QED
    BY <2>1, <2>2, <2>3, KeepsSound DEF Goes, Moves, Typed
<1>4. CASE BackupVerify(r)
  <2>1. UNCHANGED <<clock, active, files>> /\ run[r].pc = "copied"
    BY <1>4 DEF BackupVerify
  <2>2. Moves(r, IF r \in Dailies THEN "sync" ELSE IF r \in Copies THEN "done" ELSE "saved",
              run[r].name, run[r].source, run[r].staged, run[r].todo, TRUE,
              run[r].base, run[r].mine)
    BY <1>4, BackupVerifyRow
  <2>3. Fits(r)'
    BY <2>1, <2>2 DEF Moves, Fits, BackupAt, DailyAt, RestoreAt, UpgradeAt
  <2> QED
    BY <2>1, <2>2, <2>3, KeepsSound DEF Moves, Typed
<1> QED
  BY <1>1, <1>2, <1>3, <1>4 DEF BackupStep

LEMMA DailyStepSound ==
    ASSUME Sound, NEW d \in Dailies, DailyStep(d)
    PROVE  Sound'
<1> USE DEF Sound
<1>0. d \in Runs
  BY DEF Runs
<1>1. CASE DailySync(d)
  <2>1. run[d].pc = "sync" /\ UNCHANGED <<clock, files>>
    BY <1>1 DEF DailySync
  <2>2. PICK w \in Writes \ active.writes :
          /\ active' = Whole(active.writes \cup {w}) /\ active' \in Content
          /\ Moves(d, run[d].pc, run[d].name, run[d].source, run[d].staged, run[d].todo,
                   run[d].verified, run[d].base, run[d].mine \cup {w})
    BY <1>1, DailySyncRow
  <2>3. Fits(d)'
    BY <1>0, <2>1, <2>2 DEF Moves, Fits, BackupAt, DailyAt, RestoreAt, UpgradeAt
  <2> QED
    BY <1>0, <2>1, <2>2, <2>3, KeepsSound DEF Moves, Typed
<1>2. CASE DailySynced(d)
  <2>1. run[d].pc = "sync" /\ UNCHANGED <<clock, active, files>>
    BY <1>2 DEF DailySynced
  <2>2. PICK pc \in {"generate", "list"} : Goes(d, pc)
    BY <1>0, <1>2, GotoRow DEF DailySynced, Pcs
  <2>3. Fits(d)'
    BY <1>0, <2>1, <2>2 DEF Goes, Moves, Fits, BackupAt, DailyAt, RestoreAt, UpgradeAt
  <2> QED
    BY <1>0, <2>1, <2>2, <2>3, KeepsSound DEF Goes, Moves, Typed
<1>3. CASE DailyGenerate(d)
  <2>1. run[d].pc = "generate" /\ UNCHANGED <<clock, files>>
    BY <1>3 DEF DailyGenerate
  <2>2. PICK W \in SUBSET (Writes \ active.writes) :
          /\ active' = Whole(active.writes \cup W) /\ active' \in Content
          /\ Moves(d, "list", run[d].name, run[d].source, run[d].staged, run[d].todo,
                   run[d].verified, run[d].base, run[d].mine \cup W)
    BY <1>3, DailyGenerateRow
  <2>3. Fits(d)'
    BY <1>0, <2>1, <2>2 DEF Moves, Fits, BackupAt, DailyAt, RestoreAt, UpgradeAt
  <2> QED
    BY <1>0, <2>1, <2>2, <2>3, KeepsSound DEF Moves, Typed
<1>4. CASE DailyList(d)
  <2>1. run[d].pc = "list" /\ UNCHANGED <<clock, active, files>>
    BY <1>4 DEF DailyList
  <2>2. Moves(d, "prune", run[d].name, run[d].source, run[d].staged,
              ToDelete(run[d].name), run[d].verified, run[d].base, run[d].mine)
    BY <1>4, DailyListRow
  <2>3. Fits(d)'
    BY <1>0, <2>1, <2>2 DEF Moves, Fits, BackupAt, DailyAt, RestoreAt, UpgradeAt
  <2> QED
    BY <1>0, <2>1, <2>2, <2>3, KeepsSound DEF Moves, Typed
<1>5. CASE DailyDelete(d)
  <2>1. run[d].pc = "prune" /\ UNCHANGED <<clock, active>>
    BY <1>5 DEF DailyDelete
  <2>2. PICK f \in run[d].todo :
          /\ Store(f, Absent)
          /\ Moves(d, run[d].pc, run[d].name, run[d].source, run[d].staged,
                   run[d].todo \ {f}, run[d].verified, run[d].base, run[d].mine)
    BY <1>5, DailyDeleteRow
  <2>3. files' \in [Names -> Content]
    BY <1>0, <2>2, StoreFile, Contents, RowOf
  <2>4. Fits(d)'
    BY <1>0, <2>1, <2>2 DEF Moves, Fits, BackupAt, DailyAt, RestoreAt, UpgradeAt
  <2> QED
    BY <1>0, <2>1, <2>2, <2>3, <2>4, KeepsSound DEF Moves, Typed
<1>6. CASE DailyDone(d)
  <2>1. Ends(d, "done") /\ UNCHANGED <<clock, active, files>>
    BY <1>0, <1>6, EndRow DEF DailyDone, Pcs
  <2>2. Fits(d)'
    BY <1>0, <2>1 DEF Ends, Moves, Fits, BackupAt, DailyAt, RestoreAt, UpgradeAt
  <2> QED
    BY <1>0, <2>1, <2>2, KeepsSound DEF Ends, Moves, Typed
<1> QED
  BY <1>1, <1>2, <1>3, <1>4, <1>5, <1>6 DEF DailyStep

LEMMA EndSound ==
    ASSUME Sound, NEW r \in Runs, NEW pc \in {"idle", "done", "failed"}, End(r, pc),
           UNCHANGED clock, active' \in Content, files' \in [Names -> Content]
    PROVE  Sound' /\ Ends(r, pc)
<1>1. Ends(r, pc)
  BY EndRow DEF Sound, Pcs
<1>2. Fits(r)'
  BY <1>1 DEF Sound, Ends, Moves, Fits, BackupAt, DailyAt, RestoreAt, UpgradeAt
<1> QED
  BY <1>1, <1>2, KeepsSound DEF Ends, Moves, Sound, Typed

LEMMA RestoreStepSound ==
    ASSUME Sound, NEW r \in Restores, RestoreStep(r)
    PROVE  Sound'
<1> USE DEF Sound
<1>0. r \in Runs
  BY DEF Runs
<1>1. CASE RestoreStart(r)
  <2>1. PICK n \in Names : Begins(r, "staging", NoName, n, {})
    BY <1>1, RestoreStartRow
  <2>2. UNCHANGED <<clock, active, files>>
    BY <1>1, RestoreStartRow
  <2>3. Fits(r)'
    BY <1>0, <2>1, NoNameIsNone
       DEF Begins, Moves, Fits, BackupAt, DailyAt, RestoreAt, UpgradeAt
  <2> QED
    BY <1>0, <2>1, <2>2, <2>3, KeepsSound DEF Begins, Moves, Typed
<1>2. CASE RestoreStage(r)
  <2>1. run[r].pc = "staging" /\ UNCHANGED <<clock, active, files>>
    BY <1>2 DEF RestoreStage
  <2>2. run[r].source \in Names
    BY <1>0, <2>1 DEF Fits
  <2> DEFINE c == files[run[r].source]
  <2>3. CASE Moves(r, "saved", run[r].name, run[r].source, c, run[r].todo,
                   run[r].verified, run[r].base, run[r].mine)
    <3>1. Fits(r)'
      BY <1>0, <2>1, <2>2, <2>3 DEF Moves, Fits, BackupAt, DailyAt, RestoreAt, UpgradeAt
    <3> QED
      BY <1>0, <2>1, <2>3, <3>1, KeepsSound DEF Moves, Typed
  <2>4. ASSUME NEW n \in Available("safety"),
               Moves(r, "named", n, run[r].source, c, run[r].todo,
                     run[r].verified, run[r].base, run[r].mine)
        PROVE  Sound'
    <3>1. n \in Names /\ n.kind = KindOf(r)
      BY KindsApart DEF Available
    <3>2. Fits(r)'
      BY <1>0, <2>1, <2>2, <2>4, <3>1 DEF Moves, Fits, BackupAt, DailyAt, RestoreAt, UpgradeAt
    <3> QED
      BY <1>0, <2>1, <2>4, <3>2, KeepsSound DEF Moves, Typed
  <2> QED
    BY <1>2, <2>2, <2>3, <2>4, RestoreStageRow
<1>3. CASE RestoreReplace(r)
  <2>1. /\ run[r].pc = "saved" /\ UNCHANGED <<clock, files>> /\ active' = run[r].staged
        /\ Goes(r, "replaced")
    BY <1>0, <1>3, GotoRow DEF RestoreReplace, Pcs
  <2>2. active' \in Content
    BY <1>0, <2>1, RowOf
  <2>3. Fits(r)'
    BY <1>0, <2>1 DEF Goes, Moves, Fits, BackupAt, DailyAt, RestoreAt, UpgradeAt
  <2> QED
    BY <1>0, <2>1, <2>2, <2>3, KeepsSound DEF Goes, Moves, Typed
<1>4. CASE RestoreDone(r)
  BY <1>0, <1>4, EndSound DEF RestoreDone, Typed
<1>5. CASE RollbackStage(r)
  <2>1. run[r].pc = "rollback" /\ UNCHANGED <<clock, active, files>>
    BY <1>5 DEF RollbackStage
  <2>2. run[r].name \in Names
    BY <1>0, <2>1 DEF Fits
  <2>3. Moves(r, "rolling", run[r].name, run[r].source, files[run[r].name], run[r].todo,
              run[r].verified, run[r].base, run[r].mine)
    BY <1>5, <2>2, RollbackStageRow
  <2>4. Fits(r)'
    BY <1>0, <2>1, <2>2, <2>3 DEF Moves, Fits, BackupAt, DailyAt, RestoreAt, UpgradeAt
  <2> QED
    BY <1>0, <2>1, <2>3, <2>4, KeepsSound DEF Moves, Typed
<1>6. CASE RollbackReplace(r)
  <2>1. active' \in Content
    BY <1>0, <1>6, RowOf DEF RollbackReplace
  <2> QED
    BY <1>0, <1>6, <2>1, EndSound DEF RollbackReplace, Typed
<1> QED
  BY <1>1, <1>2, <1>3, <1>4, <1>5, <1>6 DEF RestoreStep

LEMMA FailureSound ==
    ASSUME Sound, NEW r \in Runs,
           \/ BackupFails(r) \/ StepFails(r) \/ Crash(r)
           \/ r \in Restores /\ RestoreFails(r)
    PROVE  Sound'
<1> USE DEF Sound
<1>1. CASE BackupFails(r)
  <2>1. run[r].name \in Names
    BY <1>1 DEF BackupFails, Fits, BackupAt
  <2>2. files' \in [Names -> Content]
    BY <1>1, <2>1, StoreFile, Contents DEF BackupFails
  <2> QED
    BY <1>1, <2>2, EndSound DEF BackupFails, Typed
<1>2. CASE StepFails(r)
  BY <1>2, EndSound DEF StepFails, Typed
<1>3. CASE Crash(r)
  BY <1>3, EndSound DEF Crash, Typed
<1>4. CASE r \in Restores /\ RestoreFails(r)
  <2>1. CASE /\ run[r].name # NoName /\ Goto(r, "rollback") /\ UNCHANGED <<active, files>>
    <3>1. Goes(r, "rollback") /\ run[r].name \in Names /\ run[r].pc = "replaced"
          /\ UNCHANGED <<clock, active, files>>
      BY <1>4, <2>1, GotoRow, RowOf DEF RestoreFails, Pcs
    <3>2. Fits(r)'
      BY <1>4, <3>1 DEF Goes, Moves, Fits, BackupAt, DailyAt, RestoreAt, UpgradeAt
    <3> QED
      BY <3>1, <3>2, KeepsSound DEF Goes, Moves, Typed
  <2>2. ASSUME NEW n \in Available("failed"), Store(n, active), active' = Absent,
               End(r, "failed")
        PROVE  Sound'
    <3>1. files' \in [Names -> Content] /\ active' \in Content
      BY <2>2, StoreFile, Contents DEF Available, Typed
    <3>2. UNCHANGED clock
      BY <1>4 DEF RestoreFails
    <3> QED
      BY <2>2, <3>1, <3>2, EndSound
  <2> QED
    BY <1>4, <2>1, <2>2 DEF RestoreFails
<1> QED
  BY <1>1, <1>2, <1>3, <1>4

LEMMA UpgradeStepSound ==
    ASSUME Sound, NEW u \in Upgrades, UpgradeStep(u)
    PROVE  Sound'
<1> USE DEF Sound
<1>0. u \in Runs
  BY DEF Runs
<1>1. CASE UpgradeStart(u)
  <2>1. UNCHANGED <<clock, active, files>>
    BY <1>1, UpgradeStartRow
  <2>2. CASE Begins(u, "begin", NoName, NoName, {})
    <3>1. Fits(u)'
      BY <1>0, <2>2, NoNameIsNone
         DEF Begins, Moves, Fits, BackupAt, DailyAt, RestoreAt, UpgradeAt
    <3> QED
      BY <1>0, <2>1, <2>2, <3>1, KeepsSound DEF Begins, Moves, Typed
  <2>3. ASSUME NEW n \in Available("bak"), Begins(u, "preserving", n, NoName, {})
        PROVE  Sound'
    <3>1. n \in Names /\ n.kind = KindOf(u)
      BY KindsApart DEF Available
    <3>2. Fits(u)'
      BY <1>0, <2>3, <3>1 DEF Begins, Moves, Fits, BackupAt, DailyAt, RestoreAt, UpgradeAt
    <3> QED
      BY <1>0, <2>1, <2>3, <3>2, KeepsSound DEF Begins, Moves, Typed
  <2> QED
    BY <1>1, <2>2, <2>3, UpgradeStartRow
<1>2. CASE UpgradePreserve(u)
  <2>1. Goes(u, "begin") /\ run[u].pc = "preserving" /\ UNCHANGED <<clock, active>>
    BY <1>0, <1>2, GotoRow DEF UpgradePreserve, Pcs
  <2>2. files' \in [Names -> Content]
    BY <1>0, <1>2, <2>1, StoreFile DEF UpgradePreserve, Fits, Typed
  <2>3. Fits(u)'
    BY <1>0, <2>1 DEF Goes, Moves, Fits, BackupAt, DailyAt, RestoreAt, UpgradeAt
  <2> QED
    BY <1>0, <2>1, <2>2, <2>3, KeepsSound DEF Goes, Moves, Typed
<1>3. CASE UpgradePreserveStops(u)
  <2>1. run[u].name \in Names
    BY <1>0, <1>3 DEF UpgradePreserveStops, Fits
  <2>2. files' \in [Names -> Content]
    BY <1>3, <2>1, StoreFile, Contents DEF UpgradePreserveStops
  <2> QED
    BY <1>0, <1>3, <2>2, EndSound DEF UpgradePreserveStops, Typed
<1>4. CASE UpgradeBegin(u)
  <2>1. UNCHANGED <<clock, files>>
    BY <1>4 DEF UpgradeBegin
  <2>2. /\ active' \in Content
        /\ Moves(u, "migrating", run[u].name, run[u].source, active', run[u].todo,
                 run[u].verified, run[u].base, run[u].mine)
    BY <1>4, UpgradeBeginRow
  <2>3. Fits(u)'
    BY <1>0, <2>2 DEF Moves, Fits, BackupAt, DailyAt, RestoreAt, UpgradeAt
  <2> QED
    BY <1>0, <2>1, <2>2, <2>3, KeepsSound DEF Moves, Typed
<1>5. CASE UpgradeMigrate(u)
  <2>1. UNCHANGED <<clock, active, files>> /\ run[u].pc = "migrating"
    BY <1>5 DEF UpgradeMigrate
  <2>2. Moves(u, run[u].pc, run[u].name, run[u].source, Migrated(run[u].staged),
              run[u].todo, run[u].verified, run[u].base, run[u].mine)
    BY <1>5, UpgradeMigrateRow
  <2>3. Fits(u)'
    BY <1>0, <2>1, <2>2 DEF Moves, Fits, BackupAt, DailyAt, RestoreAt, UpgradeAt
  <2> QED
    BY <1>0, <2>1, <2>2, <2>3, KeepsSound DEF Moves, Typed
<1>6. CASE UpgradeCommit(u)
  <2>1. active' \in Content
    BY <1>0, <1>6, RowOf, Contents DEF UpgradeCommit, Content
  <2> QED
    BY <1>0, <1>6, <2>1, EndSound DEF UpgradeCommit, Typed
<1>7. CASE UpgradeFails(u)
  BY <1>0, <1>7, EndSound DEF UpgradeFails, Typed
<1> QED
  BY <1>1, <1>2, <1>3, <1>4, <1>5, <1>6, <1>7 DEF UpgradeStep

(***************************************************************************)
(* What happens outside the runs.                                          *)
(***************************************************************************)
World == (\E w \in Writes : Commit(w)) \/ Damage \/ Tick

LEMMA WorldSound ==
    ASSUME Sound, World \/ UNCHANGED vars
    PROVE  Sound' /\ UNCHANGED <<files, run>>
<1> USE DEF Sound
<1>1. ASSUME NEW w \in Writes, Commit(w)
      PROVE  active' \in Content /\ UNCHANGED <<clock, files, run>>
  BY <1>1, Contents DEF Commit, Typed, Content
<1>2. CASE Damage
  BY <1>2, Contents DEF Damage, Typed, Fits
<1>3. CASE Tick \/ UNCHANGED vars
  BY <1>3 DEF Tick, vars, Typed, Fits
<1>4. CASE \E w \in Writes : Commit(w)
  BY <1>1, <1>4 DEF Typed, Fits
<1> QED
  BY <1>2, <1>3, <1>4 DEF World

LEMMA StepCases ==
    ASSUME UpgradeNext
    PROVE  \/ \E r \in Runs : BackupStep(r) \/ BackupFails(r) \/ StepFails(r) \/ Crash(r)
           \/ \E d \in Dailies : DailyStep(d)
           \/ \E r \in Restores : RestoreStep(r) \/ RestoreFails(r)
           \/ \E u \in Upgrades : UpgradeStep(u)
           \/ World
BY DEF UpgradeNext, Next, World

LEMMA NextSound == Sound /\ [UpgradeNext]_vars => Sound'
<1> SUFFICES ASSUME Sound, [UpgradeNext]_vars PROVE Sound'
  OBVIOUS
<1>1. Restores \subseteq Runs
  BY DEF Runs
<1> QED
  BY <1>1, StepCases, BackupStepSound, DailyStepSound, RestoreStepSound, FailureSound,
     UpgradeStepSound, WorldSound

LEMMA AnyInitSound == AnyInit => Sound
BY NoNameIsNone, IdleRow, BackupConstants
   DEF AnyInit, Sound, Typed, Fits, BackupAt, DailyAt, RestoreAt, UpgradeAt

LEMMA OldBackupTyped ==
    ASSUME NEW old \in Content, OneOldBackup(old)
    PROVE  /\ files \in [Names -> Content]
           /\ \A n \in Names : Exists(n) => n.kind = "manual"
BY Contents DEF OneOldBackup, Exists

LEMMA OutdatedTyped ==
    ASSUME NEW c \in Origins, NEW W \in SUBSET Writes
    PROVE  /\ Outdated(c.schema, c.version, W) \in Content
           /\ Outdated(c.schema, c.version, W).state = "whole"
BY UpgradeConstants DEF Outdated, Content

LEMMA UpgradeSpecIsAny == UpgradeSpec => AnySpec
<1>1. ASSUME UpgradeInit
      PROVE  AnyInit
  <2>1. active \in Content /\ active.state \in {"absent", "whole"}
    <3>1. CASE active = Absent
      BY <3>1, Contents
    <3>2. ASSUME NEW c \in Origins, NEW W \in SUBSET Writes,
                 active = Outdated(c.schema, c.version, W)
          PROVE  active \in Content /\ active.state \in {"absent", "whole"}
      BY <3>2, OutdatedTyped
    <3> QED
      BY <1>1, <3>1, <3>2 DEF UpgradeInit
  <2>2. PICK old \in {Absent, Whole({})} \cup {Outdated(c.schema, c.version, {}) : c \in Origins} :
          OneOldBackup(old)
    BY <1>1 DEF UpgradeInit
  <2>3. old \in Content
    BY <2>2, Contents, OutdatedTyped
  <2> QED
    BY <1>1, <2>1, <2>2, <2>3, OldBackupTyped DEF UpgradeInit, AnyInit
<1> QED
  BY <1>1, PTL DEF UpgradeSpec, AnySpec

NoUpgrades == \A u \in Upgrades : run[u].pc = "idle"

LEMMA UpgradesStayIdle ==
    ASSUME Sound, NoUpgrades, [Next]_vars
    PROVE  NoUpgrades'
<1> SUFFICES ASSUME NEW u \in Upgrades PROVE run'[u] = run[u]
  BY DEF NoUpgrades
<1>1. u \in Runs /\ run[u].pc = "idle" /\ u \notin Dailies \cup Copies \cup Restores
      /\ DOMAIN run = Runs
  BY BackupConstants DEF NoUpgrades, Runs, Sound, Typed
<1>2. ASSUME NEW r \in Runs, BackupStep(r) \/ BackupFails(r) \/ StepFails(r) \/ Crash(r)
      PROVE  r # u /\ run'[u] = run[u]
  BY <1>1, <1>2 DEF BackupStep, BackupStart, BackupTouch, BackupSnapshot, BackupVerify,
       BackupFails, StepFails, Crash, Ended, Goto, End
<1>3. ASSUME NEW d \in Dailies, DailyStep(d)
      PROVE  run'[u] = run[u]
  BY <1>1, <1>3 DEF DailyStep, DailySync, DailySynced, DailyGenerate, DailyList, DailyDelete,
       DailyDone, Goto, End
<1>4. ASSUME NEW r \in Restores, RestoreStep(r) \/ RestoreFails(r)
      PROVE  run'[u] = run[u]
  BY <1>1, <1>4 DEF RestoreStep, RestoreStart, RestoreStage, RestoreReplace, RestoreDone,
       RollbackStage, RollbackReplace, RestoreFails, Goto, End
<1>5. CASE (\E w \in Writes : Commit(w)) \/ Damage \/ Tick \/ UNCHANGED vars
  BY <1>5 DEF Commit, Damage, Tick, vars
<1> QED
  BY <1>2, <1>3, <1>4, <1>5 DEF Next

LEMMA SpecIsAny == Spec => AnySpec
<1>1. ASSUME Init
      PROVE  AnyInit /\ NoUpgrades
  <2>1. active \in Content /\ active.state \in {"absent", "whole"}
    BY <1>1, Contents DEF Init
  <2>2. PICK old \in {Absent} \cup {Whole(W) : W \in SUBSET Writes} : OneOldBackup(old)
    BY <1>1 DEF Init
  <2>3. old \in Content
    BY <2>2, Contents
  <2>4. NoUpgrades
    BY <1>1, IdleRow DEF Init, NoUpgrades, Runs
  <2> QED
    BY <1>1, <2>1, <2>2, <2>3, <2>4, OldBackupTyped DEF Init, AnyInit
<1>2. NoUpgrades /\ [Next]_vars => [UpgradeNext]_vars
  BY DEF NoUpgrades, UpgradeNext, WriterLocked
<1>3. Sound /\ NoUpgrades /\ [Next]_vars => Sound' /\ NoUpgrades'
  BY <1>2, NextSound, UpgradesStayIdle
<1> QED
  BY <1>1, <1>2, <1>3, AnyInitSound, PTL DEF Spec, AnySpec

LEMMA AnySound == AnySpec => []Sound
BY AnyInitSound, NextSound, PTL DEF AnySpec

(***************************************************************************)
(* Whatever overlaps, fails or is killed, the clock, the files and every   *)
(* run keep their types, and a run that works on a file has named it.      *)
(***************************************************************************)
THEOREM BackupsTypeCorrect == (Spec => []TypeOK) /\ (UpgradeSpec => []TypeOK)
<1>1. Sound => TypeOK
  BY DEF Sound, Typed, TypeOK, Row, Pcs, Fits, BackupAt
<1> QED
  BY <1>1, AnySound, SpecIsAny, UpgradeSpecIsAny, PTL

-----------------------------------------------------------------------------
(* One run at a time *)

(***************************************************************************)
(* The steps of one run.                                                   *)
(***************************************************************************)
StepOf(r) ==
    \/ BackupStep(r) \/ BackupFails(r) \/ StepFails(r) \/ Crash(r)
    \/ r \in Dailies /\ DailyStep(r)
    \/ r \in Restores /\ (RestoreStep(r) \/ RestoreFails(r))
    \/ r \in Upgrades /\ UpgradeStep(r)

LEMMA OneRunOrWorld ==
    ASSUME UpgradeNext
    PROVE  (\E r \in Runs : StepOf(r)) \/ World
BY StepCases DEF StepOf, Runs

LEMMA OthersStay ==
    ASSUME Sound, NEW r \in Runs, StepOf(r), NEW s \in Runs \ {r}
    PROVE  run'[s] = run[s]
<1>1. DOMAIN run = Runs
  BY DEF Sound, Typed
<1>2. CASE BackupStep(r) \/ BackupFails(r) \/ StepFails(r) \/ Crash(r)
  BY <1>1, <1>2 DEF BackupStep, BackupStart, BackupTouch, BackupSnapshot, BackupVerify,
       BackupFails, StepFails, Crash, Goto, End
<1>3. CASE DailyStep(r)
  BY <1>1, <1>3 DEF DailyStep, DailySync, DailySynced, DailyGenerate, DailyList, DailyDelete,
       DailyDone, Goto, End
<1>4. CASE RestoreStep(r) \/ RestoreFails(r)
  BY <1>1, <1>4 DEF RestoreStep, RestoreStart, RestoreStage, RestoreReplace, RestoreDone,
       RollbackStage, RollbackReplace, RestoreFails, Goto, End
<1>5. CASE UpgradeStep(r)
  BY <1>1, <1>5 DEF UpgradeStep, UpgradeStart, UpgradePreserve, UpgradePreserveStops,
       UpgradeBegin, UpgradeMigrate, UpgradeCommit, UpgradeFails, Goto, End
<1> QED
  BY <1>2, <1>3, <1>4, <1>5 DEF StepOf

(***************************************************************************)
(* A run starts only when it may, and leaves the files alone then.         *)
(***************************************************************************)
LEMMA OnlyStartsStart ==
    ASSUME Sound, NEW r \in Runs, StepOf(r), Ended(r)
    PROVE  MayStart(r) /\ UNCHANGED <<clock, active, files>>
<1>1. run[r].pc \in {"idle", "done", "failed"}
  BY DEF Ended
<1>2. CASE BackupStep(r) \/ BackupFails(r) \/ StepFails(r) \/ Crash(r)
  BY <1>1, <1>2 DEF BackupStep, BackupStart, BackupTouch, BackupSnapshot, BackupVerify,
       BackupFails, StepFails, Crash, Ended
<1>3. CASE DailyStep(r)
  BY <1>1, <1>3 DEF DailyStep, DailySync, DailySynced, DailyGenerate, DailyList, DailyDelete,
       DailyDone
<1>4. CASE RestoreStep(r) \/ RestoreFails(r)
  BY <1>1, <1>4 DEF RestoreStep, RestoreStart, RestoreStage, RestoreReplace, RestoreDone,
       RollbackStage, RollbackReplace, RestoreFails
<1>5. CASE UpgradeStep(r)
  BY <1>1, <1>5 DEF UpgradeStep, UpgradeStart, UpgradePreserve, UpgradePreserveStops,
       UpgradeBegin, UpgradeMigrate, UpgradeCommit, UpgradeFails
<1> QED
  BY <1>2, <1>3, <1>4, <1>5 DEF StepOf

(***************************************************************************)
(* Which file a step may change: that of its run while the run makes it,   *)
(* one that retention lists, or a free name for a restored file that       *)
(* failed.                                                                 *)
(***************************************************************************)
MayChange(r, n) ==
    \/ run[r].pc \in BackupAt \cup {"preserving"} /\ n = run[r].name
    \/ run[r].pc = "prune" /\ n \in run[r].todo
    \/ run[r].pc = "replaced" /\ n.kind = "failed" /\ ~Exists(n)

LEMMA FileChange ==
    ASSUME Sound, NEW r \in Runs, StepOf(r), NEW n \in Names, files'[n] # files[n]
    PROVE  MayChange(r, n)
<1>1. DOMAIN files = Names /\ files \in [Names -> Content]
  BY DEF Sound, Typed
<1>2. CASE BackupStep(r) \/ BackupFails(r) \/ StepFails(r) \/ Crash(r)
  BY <1>1, <1>2 DEF BackupStep, BackupStart, BackupTouch, BackupSnapshot, BackupVerify,
       BackupFails, StepFails, Crash, Store, MayChange, BackupAt
<1>3. CASE DailyStep(r)
  BY <1>1, <1>3 DEF DailyStep, DailySync, DailySynced, DailyGenerate, DailyList, DailyDelete,
       DailyDone, Store, MayChange
<1>4. CASE RestoreStep(r) \/ RestoreFails(r)
  BY <1>1, <1>4 DEF RestoreStep, RestoreStart, RestoreStage, RestoreReplace, RestoreDone,
       RollbackStage, RollbackReplace, RestoreFails, Store, MayChange, Available
<1>5. CASE UpgradeStep(r)
  BY <1>1, <1>5 DEF UpgradeStep, UpgradeStart, UpgradePreserve, UpgradePreserveStops,
       UpgradeBegin, UpgradeMigrate, UpgradeCommit, UpgradeFails, Store, MayChange
<1> QED
  BY <1>2, <1>3, <1>4, <1>5 DEF StepOf

(***************************************************************************)
(* What a step may make of the database.                                   *)
(***************************************************************************)
Grows ==
    /\ Healthy(active)
    /\ \E W \in SUBSET (Writes \ active.writes) : active' = Whole(active.writes \cup W)

Replaces(r) ==
    /\ r \in Restores
    /\ \/ /\ run[r].pc \in {"saved", "rolling"} /\ active' = run[r].staged
          /\ UNCHANGED files
       \/ /\ run[r].pc = "replaced" /\ active' = Absent
          /\ \E n \in Available("failed") : Store(n, active)

UpgradeWrites(u) ==
    /\ u \in Upgrades
    /\ \/ run[u].pc = "begin" /\ active.state = "absent" /\ active' = Empty /\ ~WriterLocked
       \/ UpgradeCommit(u)

LEMMA ActiveChange ==
    ASSUME Sound, NEW r \in Runs, StepOf(r), active' # active
    PROVE  \/ r \in Dailies /\ run[r].pc \in {"sync", "generate"} /\ Grows
           \/ Replaces(r)
           \/ UpgradeWrites(r)
<1>2. CASE BackupStep(r) \/ BackupFails(r) \/ StepFails(r) \/ Crash(r)
  BY <1>2 DEF BackupStep, BackupStart, BackupTouch, BackupSnapshot, BackupVerify,
       BackupFails, StepFails, Crash
<1>3. ASSUME r \in Dailies, DailyStep(r)
      PROVE  run[r].pc \in {"sync", "generate"} /\ Grows
  BY <1>3 DEF DailyStep, DailySync, DailySynced, DailyGenerate, DailyList, DailyDelete,
       DailyDone, Grows
<1>4. ASSUME r \in Restores, RestoreStep(r) \/ RestoreFails(r)
      PROVE  Replaces(r)
  BY <1>4 DEF RestoreStep, RestoreStart, RestoreStage, RestoreReplace, RestoreDone,
       RollbackStage, RollbackReplace, RestoreFails, Replaces
<1>5. ASSUME r \in Upgrades, UpgradeStep(r)
      PROVE  UpgradeWrites(r)
  BY <1>5 DEF UpgradeStep, UpgradeStart, UpgradePreserve, UpgradePreserveStops,
       UpgradeBegin, UpgradeMigrate, UpgradeFails, UpgradeWrites
<1> QED
  BY <1>2, <1>3, <1>4, <1>5 DEF StepOf

LEMMA WorldChange ==
    ASSUME World, active' # active
    PROVE  Healthy(active) /\ \/ MayCommit /\ Grows
                              \/ Damages /\ active' = Broken
BY DEF World, Commit, Damage, Tick, Grows

LEMMA LockedChange ==
    ASSUME Sound, UpgradeNext, WriterLocked, active' # active
    PROVE  \E u \in Upgrades : UpgradeCommit(u)
BY DEF UpgradeNext, UpgradeStep, UpgradeStart, UpgradePreserve, UpgradePreserveStops,
       UpgradeBegin, UpgradeMigrate, UpgradeFails

-----------------------------------------------------------------------------
(* What is put in place of the database *)

(***************************************************************************)
(* The copy a restore stages is healthy from the moment it is checked.     *)
(***************************************************************************)
StagedWhole ==
    \A r \in Restores :
      run[r].pc \in BackupAt \cup {"saved", "rolling"} => Healthy(run[r].staged)

LEMMA StagedStep ==
    ASSUME Sound, StagedWhole, [UpgradeNext]_vars
    PROVE  StagedWhole'
<1> SUFFICES ASSUME NEW r \in Restores,
                    run'[r].pc \in BackupAt \cup {"saved", "rolling"}
             PROVE  Healthy(run'[r].staged)
  BY DEF StagedWhole, Healthy
<1>1. r \in Runs /\ r \notin Dailies \cup Copies \cup Upgrades /\ Typed
  BY BackupConstants DEF Runs, Sound
<1>2. CASE run'[r] = run[r]
  BY <1>2 DEF StagedWhole, Healthy
<1>3. CASE StepOf(r)
  <2>1. CASE BackupStep(r)
    <3>1. CASE BackupTouch(r)
      <4>1. Goes(r, "touched") /\ run[r].pc = "named"
        BY <1>1, <3>1, GotoRow DEF BackupTouch, Pcs
      <4> QED
        BY <4>1 DEF Goes, Moves, StagedWhole, BackupAt
    <3>2. CASE BackupSnapshot(r)
      <4>1. Goes(r, "copied") /\ run[r].pc = "touched"
        BY <1>1, <3>2, GotoRow DEF BackupSnapshot, Pcs
      <4> QED
        BY <4>1 DEF Goes, Moves, StagedWhole, BackupAt
    <3>3. CASE BackupVerify(r)
      BY <1>1, <3>3, BackupVerifyRow DEF BackupVerify, Moves, StagedWhole, BackupAt
    <3> QED
      BY <1>1, <2>1, <3>1, <3>2, <3>3 DEF BackupStep, BackupStart
  <2>2. ASSUME NEW pc \in {"idle", "done", "failed"}, End(r, pc)
        PROVE  FALSE
    <3>1. Ends(r, pc)
      BY <1>1, <2>2, EndRow DEF Pcs
    <3> QED
      BY <3>1 DEF Ends, Moves, BackupAt
  <2>3. CASE BackupFails(r) \/ StepFails(r) \/ Crash(r)
    BY <2>2, <2>3 DEF BackupFails, StepFails, Crash
  <2>4. CASE RestoreStart(r)
    BY <1>1, <2>4, RestoreStartRow DEF Begins, Moves, BackupAt
  <2>5. CASE RestoreStage(r)
    <3>1. run[r].source \in Names /\ Healthy(files[run[r].source])
      BY <1>1, <2>5 DEF Sound, Fits, RestoreStage
    <3>2. run'[r].staged = files[run[r].source]
      BY <1>1, <2>5, <3>1, RestoreStageRow DEF Moves
    <3> QED
      BY <3>1, <3>2
  <2>6. CASE RestoreReplace(r)
    <3>1. Goes(r, "replaced")
      BY <1>1, <2>6, GotoRow DEF RestoreReplace, Pcs
    <3> QED
      BY <3>1 DEF Goes, Moves, BackupAt
  <2>7. CASE RollbackStage(r)
    <3>1. run[r].name \in Names /\ Healthy(files[run[r].name])
      BY <1>1, <2>7 DEF Sound, Fits, RollbackStage
    <3>2. run'[r].staged = files[run[r].name]
      BY <1>1, <2>7, <3>1, RollbackStageRow DEF Moves
    <3> QED
      BY <3>1, <3>2
  <2>8. CASE RestoreDone(r) \/ RollbackReplace(r)
    BY <2>2, <2>8 DEF RestoreDone, RollbackReplace
  <2>9. CASE RestoreFails(r)
    <3>1. CASE Goto(r, "rollback")
      <4>1. Goes(r, "rollback")
        BY <1>1, <3>1, GotoRow DEF Pcs
      <4> QED
        BY <4>1 DEF Goes, Moves, BackupAt
    <3> QED
      BY <2>2, <2>9, <3>1 DEF RestoreFails
  <2> QED
    BY <1>1, <1>3, <2>1, <2>3, <2>4, <2>5, <2>6, <2>7, <2>8, <2>9 DEF StepOf, RestoreStep
<1>4. ASSUME NEW s \in Runs \ {r}, StepOf(s)
      PROVE  run'[r] = run[r]
  BY <1>1, <1>4, OthersStay
<1>5. CASE World \/ UNCHANGED vars
  BY <1>2, <1>5, WorldSound
<1> QED
  BY <1>2, <1>3, <1>4, <1>5, OneRunOrWorld

LEMMA AnyStaged == AnySpec => []StagedWhole
<1>1. AnyInit => StagedWhole
  BY IdleRow DEF AnyInit, StagedWhole, Runs, BackupAt
<1> QED
  BY <1>1, StagedStep, AnySound, PTL DEF AnySpec

(***************************************************************************)
(* However restores, upgrades and failures interleave, the file that takes *)
(* the database's place is a whole one: a restore replaces it by a copy    *)
(* that was checked, and an upgrade commits at once.                       *)
(***************************************************************************)
THEOREM NothingHalfWritten == (Spec => ActiveStaysWhole) /\ (UpgradeSpec => ActiveStaysWhole)
<1>1. Sound /\ StagedWhole /\ [UpgradeNext]_vars =>
        [ ~Damages /\ active'.state # active.state
            => \/ active'.state \in {"whole", "absent"}
               \/ active.state = "absent" /\ \E u \in Upgrades : run[u].pc = "begin" ]_vars
  <2> SUFFICES ASSUME Sound, StagedWhole, UpgradeNext, ~Damages,
                      active'.state # active.state
               PROVE  \/ active'.state \in {"whole", "absent"}
                      \/ active.state = "absent" /\ \E u \in Upgrades : run[u].pc = "begin"
    OBVIOUS
  <2>1. active' # active
    OBVIOUS
  <2>2. CASE Grows
    BY <2>2, Contents DEF Grows
  <2>3. ASSUME NEW r \in Runs, Replaces(r)
        PROVE  active'.state \in {"whole", "absent"}
    BY <2>3, Contents DEF Replaces, StagedWhole, Healthy, BackupAt
  <2>4. ASSUME NEW u \in Runs, UpgradeWrites(u)
        PROVE  \/ active'.state = "whole"
               \/ active.state = "absent" /\ \E v \in Upgrades : run[v].pc = "begin"
    BY <2>4, Contents DEF UpgradeWrites, UpgradeCommit
  <2> QED
    BY <2>1, <2>2, <2>3, <2>4, OneRunOrWorld, ActiveChange, WorldChange
<1> QED
  BY <1>1, AnySound, AnyStaged, SpecIsAny, UpgradeSpecIsAny, PTL DEF AnySpec, ActiveStaysWhole

-----------------------------------------------------------------------------
(* The upgrade's transaction *)

(***************************************************************************)
(* What a transaction has staged holds the changes the database holds: it  *)
(* was read under the lock, and a migration adds none and loses none.      *)
(***************************************************************************)
Migrating ==
    \A u \in Upgrades : run[u].pc = "migrating" =>
      /\ run[u].staged.writes = active.writes
      /\ active.state \in {"empty", "whole"}

LEMMA MigratingStep ==
    ASSUME Sound, Migrating, [UpgradeNext]_vars
    PROVE  Migrating'
<1> SUFFICES ASSUME NEW u \in Upgrades, run'[u].pc = "migrating"
             PROVE  /\ run'[u].staged.writes = active'.writes
                    /\ active'.state \in {"empty", "whole"}
  BY DEF Migrating
<1>1. u \in Runs /\ u \notin Dailies \cup Copies \cup Restores /\ Typed
  BY BackupConstants DEF Runs, Sound
<1>2. ASSUME run[u].pc = "migrating", run'[u].staged.writes = run[u].staged.writes
      PROVE  /\ run'[u].staged.writes = active'.writes
             /\ active'.state \in {"empty", "whole"}
  <2>1. /\ run[u].staged.writes = active.writes /\ active.state \in {"empty", "whole"}
        /\ WriterLocked
    BY <1>2 DEF Migrating, WriterLocked
  <2>2. CASE active' = active
    BY <1>2, <2>1, <2>2
  <2>3. CASE active' # active
    <3>1. PICK v \in Upgrades : UpgradeCommit(v)
      BY <2>1, <2>3, LockedChange DEF vars
    <3>2. active' = Whole(run[v].staged.writes) /\ run[v].staged.writes = active.writes
      BY <3>1 DEF UpgradeCommit, Migrating
    <3> QED
      BY <1>2, <2>1, <3>2, Contents
  <2> QED
    BY <2>2, <2>3
<1>3. CASE run'[u] = run[u]
  BY <1>2, <1>3
<1>4. CASE StepOf(u)
  <2>1. ASSUME NEW pc \in Pcs \ {"migrating"}, Goto(u, pc) \/ End(u, pc)
        PROVE  FALSE
    BY <1>1, <2>1, GotoRow, EndRow DEF Goes, Ends, Moves
  <2>2. CASE BackupStep(u) \/ BackupFails(u) \/ StepFails(u) \/ Crash(u)
    <3>1. run[u].pc \notin BackupAt \/ ~BackupStep(u)
      BY <1>1 DEF Sound, Fits
    <3> QED
      BY <1>1, <2>1, <2>2, <3>1 DEF BackupStep, BackupStart, BackupTouch, BackupSnapshot,
         BackupVerify, BackupFails, StepFails, Crash, BackupAt, Pcs
  <2>3. CASE UpgradeStart(u)
    BY <1>1, <2>3, UpgradeStartRow DEF Begins, Moves
  <2>4. CASE UpgradePreserve(u) \/ UpgradePreserveStops(u) \/ UpgradeCommit(u) \/ UpgradeFails(u)
    BY <2>1, <2>4 DEF UpgradePreserve, UpgradePreserveStops, UpgradeCommit, UpgradeFails, Pcs
  <2>5. CASE UpgradeBegin(u)
    <3>1. /\ active' = (IF active.state = "absent" THEN Empty ELSE active)
          /\ run'[u].staged = active'
      BY <1>1, <2>5, UpgradeBeginRow DEF Moves
    <3>2. active.state \in {"absent", "empty", "whole"}
      BY <1>1, <2>5 DEF UpgradeBegin, Typed, Content
    <3> QED
      BY <3>1, <3>2, Contents
  <2>6. CASE UpgradeMigrate(u)
    <3>1. run[u].pc = "migrating" /\ run'[u].staged = Migrated(run[u].staged)
      BY <1>1, <2>6, UpgradeMigrateRow DEF Moves, UpgradeMigrate
    <3>2. run'[u].staged.writes = run[u].staged.writes
      BY <3>1 DEF Migrated, Outdated
    <3> QED
      BY <1>2, <3>1, <3>2
  <2> QED
    BY <1>1, <1>4, <2>2, <2>3, <2>4, <2>5, <2>6 DEF StepOf, UpgradeStep
<1>5. ASSUME NEW s \in Runs \ {u}, StepOf(s)
      PROVE  run'[u] = run[u]
  BY <1>1, <1>5, OthersStay
<1>6. CASE World \/ UNCHANGED vars
  BY <1>3, <1>6, WorldSound
<1> QED
  BY <1>3, <1>4, <1>5, <1>6, OneRunOrWorld

LEMMA AnyMigrating == AnySpec => []Migrating
<1>1. AnyInit => Migrating
  BY IdleRow DEF AnyInit, Migrating, Runs
<1> QED
  BY <1>1, MigratingStep, AnySound, PTL DEF AnySpec

(***************************************************************************)
(* For any number of upgrades that found the same old version, and         *)
(* whatever else runs: inside a transaction the database changes just once, *)
(* to the current version with all the changes it held.                    *)
(***************************************************************************)
THEOREM UpgradesAreAtomic == UpgradeSpec => UpgradeIsAtomic
<1>1. Sound /\ Migrating /\ [UpgradeNext]_vars =>
        [ WriterLocked /\ active' # active
            => /\ active' = Whole(active.writes)
               /\ \E u \in Upgrades : run[u].pc = "migrating" /\ run'[u].pc = "done" ]_vars
  <2> SUFFICES ASSUME Sound, Migrating, UpgradeNext, WriterLocked, active' # active
               PROVE  /\ active' = Whole(active.writes)
                      /\ \E u \in Upgrades : run[u].pc = "migrating" /\ run'[u].pc = "done"
    OBVIOUS
  <2>1. PICK u \in Upgrades : UpgradeCommit(u)
    BY LockedChange
  <2>2. active' = Whole(run[u].staged.writes) /\ run[u].pc = "migrating"
        /\ run[u].staged.writes = active.writes
    BY <2>1 DEF UpgradeCommit, Migrating
  <2>3. u \in Runs /\ Typed /\ "done" \in Pcs /\ End(u, "done")
    BY <2>1 DEF Runs, Sound, UpgradeCommit, Pcs
  <2>4. run'[u].pc = "done"
    BY <2>3, EndRow DEF Ends, Moves
  <2> QED
    BY <2>2, <2>4
<1> QED
  BY <1>1, AnySound, AnyMigrating, UpgradeSpecIsAny, PTL DEF AnySpec, UpgradeIsAtomic

-----------------------------------------------------------------------------
(* What a restore and an upgrade keep *)

(***************************************************************************)
(* Retention only ever lists daily backups.                                *)
(***************************************************************************)
TodoDaily ==
    \A d \in Runs : run[d].pc = "prune" => \A f \in run[d].todo : f.kind = "daily"

LEMMA TodoStep ==
    ASSUME Sound, TodoDaily, [UpgradeNext]_vars
    PROVE  TodoDaily'
<1> SUFFICES ASSUME NEW d \in Runs, run'[d].pc = "prune", NEW f \in run'[d].todo
             PROVE  f.kind = "daily"
  BY DEF TodoDaily
<1>1. Typed
  BY DEF Sound
<1>2. CASE run'[d] = run[d]
  BY <1>2 DEF TodoDaily
<1>3. CASE StepOf(d)
  <2>1. ASSUME NEW pc \in Pcs \ {"prune"}, Goto(d, pc) \/ End(d, pc)
        PROVE  FALSE
    BY <1>1, <2>1, GotoRow, EndRow DEF Goes, Ends, Moves
  <2>2. CASE BackupStep(d) \/ BackupFails(d) \/ StepFails(d) \/ Crash(d)
    <3>1. ~BackupStart(d)
      BY <1>1, BackupStartRow DEF Begins, Moves
    <3>2. ~BackupVerify(d)
      BY <1>1, BackupVerifyRow DEF Moves
    <3> QED
      BY <2>1, <2>2, <3>1, <3>2 DEF BackupStep, BackupTouch, BackupSnapshot, BackupFails,
         StepFails, Crash, Pcs
  <2>3. ASSUME d \in Dailies, DailyStep(d)
        PROVE  f.kind = "daily"
    <3>1. ~DailySync(d)
      BY <1>1, <2>3, DailySyncRow DEF Moves, DailySync
    <3>2. ~DailyGenerate(d)
      BY <1>1, <2>3, DailyGenerateRow DEF Moves
    <3>3. CASE DailyList(d)
      BY <1>1, <2>3, <3>3, DailyListRow DEF Moves, ToDelete, DailyFiles
    <3>4. CASE DailyDelete(d)
      BY <1>1, <2>3, <3>4, DailyDeleteRow DEF Moves, DailyDelete, TodoDaily
    <3> QED
      BY <2>1, <2>3, <3>1, <3>2, <3>3, <3>4 DEF DailyStep, DailySynced, DailyDone, Pcs
  <2>4. ASSUME d \in Restores, RestoreStep(d) \/ RestoreFails(d)
        PROVE  FALSE
    <3>1. ~RestoreStart(d)
      BY <1>1, <2>4, RestoreStartRow DEF Begins, Moves
    <3>2. ~RestoreStage(d)
      BY <1>1, <2>4, RestoreStageRow DEF Moves, RestoreStage, Sound, Fits
    <3>3. ~RollbackStage(d)
      BY <1>1, <2>4, RollbackStageRow DEF Moves, RollbackStage, Sound, Fits
    <3> QED
      BY <2>1, <2>4, <3>1, <3>2, <3>3 DEF RestoreStep, RestoreReplace, RestoreDone,
         RollbackReplace, RestoreFails, Pcs
  <2>5. ASSUME d \in Upgrades, UpgradeStep(d)
        PROVE  FALSE
    <3>1. ~UpgradeStart(d)
      BY <1>1, <2>5, UpgradeStartRow DEF Begins, Moves
    <3>2. ~UpgradeBegin(d)
      BY <1>1, <2>5, UpgradeBeginRow DEF Moves
    <3>3. ~UpgradeMigrate(d)
      BY <1>1, <2>5, UpgradeMigrateRow DEF Moves, UpgradeMigrate
    <3> QED
      BY <2>1, <2>5, <3>1, <3>2, <3>3 DEF UpgradeStep, UpgradePreserve, UpgradePreserveStops,
         UpgradeCommit, UpgradeFails, Pcs
  <2> QED
    BY <1>3, <2>2, <2>3, <2>4, <2>5 DEF StepOf
<1>4. ASSUME NEW s \in Runs \ {d}, StepOf(s)
      PROVE  run'[d] = run[d]
  BY <1>4, OthersStay
<1>5. CASE World \/ UNCHANGED vars
  BY <1>2, <1>5, WorldSound
<1> QED
  BY <1>2, <1>3, <1>4, <1>5, OneRunOrWorld

(***************************************************************************)
(* An upgrade that is about to give up an old schema has left a copy of    *)
(* just what it replaces, which no other command writes to.                *)
(***************************************************************************)
Old(c) == c.state = "whole" /\ ~Current(c)

CopyKept ==
    \A u \in Upgrades : run[u].pc \in {"begin", "migrating"} /\ Old(active) =>
      \E n \in Names : n.kind = "bak" /\ files[n] = active

(***************************************************************************)
(* Nothing makes an old file of the database: what it becomes is current,  *)
(* empty, broken or gone.                                                  *)
(***************************************************************************)
LEMMA OldIsNotMade ==
    ASSUME Sound, StagedWhole, [UpgradeNext]_vars, Old(active')
    PROVE  active' = active
<1>1. ~Grows /\ active' # Broken /\ active' # Absent /\ active' # Empty
  BY Contents DEF Grows, Old, Current
<1>2. ASSUME NEW r \in Runs, Replaces(r)
      PROVE  FALSE
  BY <1>1, <1>2 DEF Replaces, StagedWhole, Healthy, Old, Current, BackupAt
<1>3. ASSUME NEW u \in Runs, UpgradeWrites(u)
      PROVE  FALSE
  BY <1>1, <1>3, Contents DEF UpgradeWrites, UpgradeCommit, Old, Current
<1> QED
  BY <1>1, <1>2, <1>3, OneRunOrWorld, ActiveChange, WorldChange DEF vars

LEMMA CopyStep ==
    ASSUME Sound, StagedWhole, TodoDaily, CopyKept, [UpgradeNext]_vars
    PROVE  CopyKept'
<1> SUFFICES ASSUME NEW u \in Upgrades, run'[u].pc \in {"begin", "migrating"}, Old(active')
             PROVE  \E n \in Names : n.kind = "bak" /\ files'[n] = active'
  BY DEF CopyKept, Old, Current
<1>1. active' = active /\ Old(active)
  BY OldIsNotMade
<1>2. u \in Runs /\ u \notin Dailies \cup Copies \cup Restores /\ Typed
  BY BackupConstants DEF Runs, Sound
<1>3. CASE run[u].pc \in {"begin", "migrating"}
  <2>1. PICK n \in Names : n.kind = "bak" /\ files[n] = active
    BY <1>1, <1>3 DEF CopyKept
  <2>2. files[n].state = "whole" /\ Exists(n)
    BY <1>1, <2>1 DEF Old, Exists
  <2>3. ASSUME NEW r \in Runs, StepOf(r), files'[n] # files[n]
        PROVE  files'[n] = active
    <3>1. MayChange(r, n)
      BY <2>3, FileChange
    <3>2. run[r].pc = "preserving" /\ n = run[r].name
      <4>1. run[r].pc # "prune" \/ n \notin run[r].todo
        BY <2>1 DEF TodoDaily
      <4>2. ASSUME run[r].pc \in BackupAt, n = run[r].name
            PROVE  FALSE
        BY <2>1, <4>2, KindsApart DEF Sound, Fits
      <4> QED
        BY <2>1, <2>2, <3>1, <4>1, <4>2 DEF MayChange
    <3>3. r \in Upgrades /\ UpgradeStep(r)
      <4>1. r \in Upgrades /\ r \notin Dailies \cup Copies \cup Restores
        BY <3>2, BackupConstants DEF Sound, Fits, UpgradeAt
      <4>2. ~(BackupStep(r) \/ BackupFails(r))
        BY <3>2, <4>1 DEF BackupStep, BackupStart, BackupTouch, BackupSnapshot,
           BackupVerify, BackupFails
      <4>3. StepFails(r) \/ Crash(r) => UNCHANGED files
        BY DEF StepFails, Crash
      <4> QED
        BY <2>3, <4>1, <4>2, <4>3 DEF StepOf
    <3>4. UpgradePreserve(r)
      BY <2>2, <2>3, <3>2, <3>3 DEF UpgradeStep, UpgradeStart, UpgradePreserveStops,
         UpgradeBegin, UpgradeMigrate, UpgradeCommit, UpgradeFails
    <3> QED
      BY <1>2, <3>2, <3>4, StoreFile DEF UpgradePreserve, Typed
  <2>4. CASE \E r \in Runs : StepOf(r)
    BY <1>1, <2>1, <2>3, <2>4
  <2>5. CASE World \/ UNCHANGED vars
    BY <1>1, <2>1, <2>5, WorldSound
  <2> QED
    BY <2>4, <2>5, OneRunOrWorld
<1>4. CASE run[u].pc \notin {"begin", "migrating"}
  <2>1. run'[u] # run[u]
    BY <1>4
  <2>2. StepOf(u)
    BY <1>2, <2>1, OneRunOrWorld, OthersStay, WorldSound
  <2>3. ASSUME NEW pc \in Pcs \ {"begin", "migrating"}, Goto(u, pc) \/ End(u, pc)
        PROVE  FALSE
    BY <1>2, <2>3, GotoRow, EndRow DEF Goes, Ends, Moves
  <2>4. ASSUME BackupStep(u) \/ BackupFails(u) \/ StepFails(u) \/ Crash(u)
        PROVE  FALSE
    <3>1. ~BackupStart(u)
      BY <1>2 DEF BackupStart
    <3>2. ~BackupVerify(u)
      BY <1>2, BackupVerifyRow DEF Moves
    <3> QED
      BY <2>3, <2>4, <3>1, <3>2 DEF BackupStep, BackupTouch, BackupSnapshot, BackupFails,
         StepFails, Crash, Pcs
  <2>5. UpgradeStep(u)
    BY <1>2, <2>2, <2>4 DEF StepOf
  <2>6. CASE UpgradePreserve(u)
    <3>1. run[u].name \in Names /\ run[u].name.kind = "bak"
      BY <1>2, <2>6, KindsApart DEF UpgradePreserve, Sound, Fits
    <3>2. files'[run[u].name] = active
      BY <1>2, <2>6, <3>1, StoreFile DEF UpgradePreserve, Typed
    <3> QED
      BY <1>1, <3>1, <3>2
  <2>7. ~UpgradeStart(u)
    <3>1. active.state # "absent"
      BY <1>1 DEF Old
    <3> QED
      BY <1>2, <3>1, UpgradeStartRow DEF Begins, Moves
  <2> QED
    BY <1>4, <2>3, <2>5, <2>6, <2>7 DEF UpgradeStep, UpgradePreserveStops, UpgradeBegin,
       UpgradeMigrate, UpgradeCommit, UpgradeFails, Pcs
<1> QED
  BY <1>3, <1>4

LEMMA AnyCopyKept == AnySpec => [](TodoDaily /\ CopyKept)
<1>1. AnyInit => TodoDaily /\ CopyKept
  BY IdleRow DEF AnyInit, TodoDaily, CopyKept, Runs
<1>2. Sound /\ StagedWhole /\ TodoDaily /\ CopyKept /\ [UpgradeNext]_vars
        => (TodoDaily /\ CopyKept)'
  BY TodoStep, CopyStep
<1> QED
  BY <1>1, <1>2, AnySound, AnyStaged, PTL DEF AnySpec

(***************************************************************************)
(* A restore that goes on to touch the database has found it current or    *)
(* absent, and it does not become old again.                               *)
(***************************************************************************)
OnlyCurrentReplaced ==
    \A r \in Restores :
      run[r].pc \in {"touched", "copied", "saved", "replaced", "rollback", "rolling"}
        => ~Old(active)

LEMMA OnlyCurrentStep ==
    ASSUME Sound, StagedWhole, OnlyCurrentReplaced, [UpgradeNext]_vars
    PROVE  OnlyCurrentReplaced'
<1> DEFINE Late == {"touched", "copied", "saved", "replaced", "rollback", "rolling"}
<1> SUFFICES ASSUME NEW r \in Restores, run'[r].pc \in Late, Old(active')
             PROVE  FALSE
  BY DEF OnlyCurrentReplaced, Old, Current
<1>1. Old(active)
  BY OldIsNotMade
<1>2. r \in Runs /\ r \notin Dailies \cup Copies \cup Upgrades /\ Typed
  BY BackupConstants DEF Runs, Sound
<1>3. run[r].pc \notin Late
  BY <1>1 DEF OnlyCurrentReplaced
<1> HIDE DEF Late
<1>4. StepOf(r)
  BY <1>2, <1>3, OneRunOrWorld, OthersStay, WorldSound
<1>5. ~Healthy(active) /\ active.state # "absent"
  BY <1>1 DEF Old, Current, Healthy
<1>6. ASSUME NEW pc \in Pcs \ Late, Goto(r, pc) \/ End(r, pc)
      PROVE  FALSE
  BY <1>2, <1>6, GotoRow, EndRow DEF Goes, Ends, Moves
<1>7. ~BackupStep(r)
  BY <1>2, <1>3, <1>5 DEF BackupStep, BackupStart, BackupTouch, BackupSnapshot, BackupVerify,
     Late
<1>8. ~(BackupFails(r) \/ StepFails(r) \/ Crash(r))
  BY <1>6 DEF BackupFails, StepFails, Crash, Pcs, Late
<1>9. ~RestoreStart(r)
  BY <1>2, RestoreStartRow DEF Begins, Moves, Late
<1>10. ~RestoreStage(r)
  <2>1. run[r].source \in Names \/ ~RestoreStage(r)
    BY <1>2 DEF Sound, Fits, RestoreStage
  <2> QED
    BY <1>2, <1>5, <2>1, RestoreStageRow DEF Moves, Late
<1> QED
  BY <1>2, <1>3, <1>4, <1>7, <1>8, <1>9, <1>10 DEF StepOf, RestoreStep, RestoreReplace,
     RestoreDone, RollbackStage, RollbackReplace, RestoreFails, Late

LEMMA AnyOnlyCurrent == AnySpec => []OnlyCurrentReplaced
<1>1. AnyInit => OnlyCurrentReplaced
  BY IdleRow DEF AnyInit, OnlyCurrentReplaced, Runs
<1> QED
  BY <1>1, OnlyCurrentStep, AnySound, AnyStaged, PTL DEF AnySpec

(***************************************************************************)
(* However many upgrades overlap, whatever earlier ones left behind and    *)
(* whatever restores run beside them: when the old schema is given up, a   *)
(* file beside the database holds just what it replaces.                   *)
(***************************************************************************)
THEOREM OldSchemaIsKept == UpgradeSpec => PreUpgradeKept
<1>1. Sound /\ StagedWhole /\ CopyKept /\ OnlyCurrentReplaced /\ [UpgradeNext]_vars =>
        [ active.state = "whole" /\ ~Current(active) /\ active' # active
            => \E n \in Names : files'[n] = active ]_vars
  <2> SUFFICES ASSUME Sound, CopyKept, OnlyCurrentReplaced, UpgradeNext,
                      Old(active), active' # active
               PROVE  \E n \in Names : files'[n] = active
    BY DEF Old
  <2>1. ~Healthy(active) /\ active.state # "absent"
    BY DEF Old, Current, Healthy
  <2>2. PICK r \in Runs : StepOf(r)
    BY <2>1, OneRunOrWorld, WorldChange
  <2>3. ~Replaces(r)
    BY DEF Replaces, OnlyCurrentReplaced
  <2>4. r \in Upgrades /\ UpgradeCommit(r)
    BY <2>1, <2>2, <2>3, ActiveChange DEF Grows, UpgradeWrites
  <2> QED
    BY <2>4 DEF UpgradeCommit, CopyKept
<1> QED
  BY <1>1, AnySound, AnyStaged, AnyCopyKept, AnyOnlyCurrent, UpgradeSpecIsAny, PTL
     DEF AnySpec, PreUpgradeKept

-----------------------------------------------------------------------------
(* A restore that runs alone *)

(***************************************************************************)
(* Where everything else is stopped for a restore, it stays so.            *)
(***************************************************************************)
Alone == \A r \in Restores, s \in Runs : s # r /\ ~Ended(r) => Ended(s)

LEMMA AloneStep ==
    ASSUME Quiesced, Sound, Alone, [UpgradeNext]_vars
    PROVE  Alone'
<1> SUFFICES ASSUME NEW r \in Restores, NEW s \in Runs, s # r, ~Ended(r)'
             PROVE  Ended(s)'
  BY DEF Alone
<1>1. r \in Runs
  BY DEF Runs
<1>2. CASE run' = run
  BY <1>2 DEF Alone, Ended
<1>3. CASE StepOf(r)
  <2>1. Ended(s)
    BY <1>1, <1>3, OnlyStartsStart DEF Alone, MayStart
  <2> QED
    BY <1>1, <1>3, <2>1, OthersStay DEF Ended
<1>4. CASE StepOf(s)
  <2>1. ~Ended(r)
    BY <1>1, <1>4, OthersStay DEF Ended
  <2> QED
    BY <1>4, <2>1, OnlyStartsStart DEF Alone, MayStart
<1>5. ASSUME NEW t \in Runs, StepOf(t), t # r, t # s
      PROVE  Ended(s)'
  BY <1>1, <1>5, OthersStay DEF Alone, Ended
<1> QED
  BY <1>2, <1>3, <1>4, <1>5, OneRunOrWorld, WorldSound DEF vars

LEMMA AnyAlone == ASSUME Quiesced PROVE AnySpec => []Alone
<1>1. AnyInit => Alone
  BY IdleRow DEF AnyInit, Alone, Ended, Runs
<1>2. Sound /\ Alone /\ [UpgradeNext]_vars => Alone'
  BY AloneStep
<1> QED
  BY <1>1, <1>2, AnySound, PTL DEF AnySpec

LEMMA RestoreRunsAlone ==
    ASSUME Quiesced, ~Damages, Sound, Alone, [UpgradeNext]_vars,
           NEW r \in Restores, ~Ended(r)
    PROVE  StepOf(r) \/ UNCHANGED <<active, files, run>>
<1>1. ASSUME NEW s \in Runs, StepOf(s)
      PROVE  s = r
  BY <1>1, OnlyStartsStart DEF Alone, MayStart
<1>2. CASE World
  BY <1>2, WorldSound DEF World, Commit, MayCommit, Damage, Tick
<1> QED
  BY <1>1, <1>2, OneRunOrWorld DEF vars

(***************************************************************************)
(* What a restore relies on from one step to the next, when nothing else   *)
(* runs: its candidate is what it staged, the safety backup is what the    *)
(* database holds, and once it replaced that, the candidate is.            *)
(***************************************************************************)
RestoreHolds(r) ==
    /\ run[r].pc = "staging" => run[r].name = NoName
    /\ run[r].pc \in BackupAt \cup {"saved"} =>
         /\ run[r].source \in Names /\ run[r].staged = files[run[r].source]
         /\ run[r].name # run[r].source
    /\ run[r].pc = "copied" => files[run[r].name] = active
    /\ run[r].pc = "saved" =>
         \/ run[r].name = NoName /\ active.state = "absent"
         \/ run[r].name \in Names /\ files[run[r].name] = active
    /\ run[r].pc \in {"replaced", "rollback", "rolling"} =>
         run[r].source \in Names /\ active = files[run[r].source]

LEMMA RestoreHoldsStep ==
    ASSUME Quiesced, ~Damages, Sound, Alone, \A r \in Restores : RestoreHolds(r),
           [UpgradeNext]_vars, NEW r \in Restores
    PROVE  RestoreHolds(r)'
<1>1. r \in Runs /\ r \notin Dailies \cup Copies \cup Upgrades /\ Typed
  BY BackupConstants DEF Runs, Sound
<1>2. ASSUME NEW pc \in {"idle", "done", "failed"}, End(r, pc)
      PROVE  RestoreHolds(r)'
  <2>1. Ends(r, pc)
    BY <1>1, <1>2, EndRow DEF Pcs
  <2> QED
    BY <2>1 DEF Ends, Moves, RestoreHolds, BackupAt
<1>3. CASE RestoreStart(r)
  BY <1>1, <1>3, RestoreStartRow DEF Begins, Moves, RestoreHolds, BackupAt
<1>4. CASE RestoreStage(r)
  <2>1. /\ run[r].source \in Names /\ Healthy(files[run[r].source]) /\ run[r].name = NoName
        /\ UNCHANGED <<active, files>>
    BY <1>1, <1>4 DEF Sound, Fits, RestoreStage, RestoreHolds
  <2>2. CASE active.state = "absent"
    BY <1>1, <1>4, <2>1, <2>2, RestoreStageRow, NoNameIsNone DEF Moves, RestoreHolds, BackupAt
  <2>3. ASSUME active.state # "absent"
        PROVE  RestoreHolds(r)'
    <3>1. PICK n \in Available("safety") :
            Moves(r, "named", n, run[r].source, files[run[r].source], run[r].todo,
                  run[r].verified, run[r].base, run[r].mine)
      BY <1>1, <1>4, <2>1, <2>3, RestoreStageRow
    <3>2. n # run[r].source
      BY <2>1 DEF Available, Exists, Healthy
    <3> QED
      BY <2>1, <3>1, <3>2 DEF Moves, RestoreHolds, BackupAt
  <2> QED
    BY <2>2, <2>3
<1>5. CASE BackupTouch(r)
  <2>1. Goes(r, "touched") /\ run[r].pc = "named"
    BY <1>1, <1>5, GotoRow DEF BackupTouch, Pcs
  <2>2. run[r].source \in Names /\ run[r].staged = files[run[r].source]
        /\ run[r].name # run[r].source /\ run[r].name \in Names
    BY <1>1, <2>1 DEF RestoreHolds, BackupAt, Sound, Fits
  <2>3. files'[run[r].source] = files[run[r].source]
    BY <1>1, <1>5, <2>2, StoreFile, Contents DEF BackupTouch
  <2> QED
    BY <2>1, <2>2, <2>3 DEF Goes, Moves, RestoreHolds, BackupAt
<1>6. CASE BackupSnapshot(r)
  <2>1. Goes(r, "copied") /\ run[r].pc = "touched" /\ active' = active
    BY <1>1, <1>6, GotoRow DEF BackupSnapshot, Pcs
  <2>2. run[r].source \in Names /\ run[r].staged = files[run[r].source]
        /\ run[r].name # run[r].source /\ run[r].name \in Names
    BY <1>1, <2>1 DEF RestoreHolds, BackupAt, Sound, Fits
  <2>3. files'[run[r].source] = files[run[r].source] /\ files'[run[r].name] = active
    BY <1>1, <1>6, <2>2, StoreFile DEF BackupSnapshot, Typed
  <2> QED
    BY <2>1, <2>2, <2>3 DEF Goes, Moves, RestoreHolds, BackupAt
<1>7. CASE BackupVerify(r)
  <2>1. run[r].pc = "copied" /\ run'[r].pc = "saved" /\ UNCHANGED <<active, files>>
        /\ run'[r].name = run[r].name /\ run'[r].source = run[r].source
        /\ run'[r].staged = run[r].staged
    BY <1>1, <1>7, BackupVerifyRow DEF BackupVerify, Moves
  <2>2. run[r].name \in Names
    BY <1>1, <2>1 DEF Sound, Fits, BackupAt
  <2> QED
    BY <2>1, <2>2 DEF RestoreHolds, BackupAt
<1>8. CASE RestoreReplace(r)
  <2>1. Goes(r, "replaced") /\ run[r].pc = "saved" /\ files' = files
        /\ active' = run[r].staged
    BY <1>1, <1>8, GotoRow DEF RestoreReplace, Pcs
  <2> QED
    BY <2>1 DEF Goes, Moves, RestoreHolds, BackupAt
<1>9. CASE Goto(r, "rollback") /\ run[r].pc = "replaced" /\ UNCHANGED <<active, files>>
  <2>1. Goes(r, "rollback")
    BY <1>1, <1>9, GotoRow DEF Pcs
  <2> QED
    BY <1>9, <2>1 DEF Goes, Moves, RestoreHolds, BackupAt
<1>10. CASE RollbackStage(r)
  <2>1. run[r].pc = "rollback" /\ run[r].name \in Names /\ UNCHANGED <<active, files>>
    BY <1>1, <1>10 DEF Sound, Fits, RollbackStage
  <2> QED
    BY <1>1, <1>10, <2>1, RollbackStageRow DEF Moves, RestoreHolds, BackupAt
<1>11. CASE StepOf(r)
  <2>1. CASE BackupStep(r)
    BY <1>1, <1>5, <1>6, <1>7, <2>1 DEF BackupStep, BackupStart
  <2>2. CASE BackupFails(r) \/ StepFails(r) \/ Crash(r)
    BY <1>2, <2>2 DEF BackupFails, StepFails, Crash
  <2>3. CASE RestoreStep(r)
    BY <1>2, <1>3, <1>4, <1>8, <1>10, <2>3 DEF RestoreStep, RestoreDone, RollbackReplace
  <2>4. CASE RestoreFails(r)
    BY <1>2, <1>9, <2>4 DEF RestoreFails
  <2> QED
    BY <1>1, <1>11, <2>1, <2>2, <2>3, <2>4 DEF StepOf
<1>12. CASE UNCHANGED <<active, files, run>>
  BY <1>12 DEF RestoreHolds
<1>13. CASE Ended(r) /\ run'[r] = run[r]
  BY <1>13 DEF RestoreHolds, Ended, BackupAt
<1> QED
  BY <1>1, <1>11, <1>12, <1>13, RestoreRunsAlone, OneRunOrWorld, OthersStay, WorldSound DEF vars

LEMMA AnyRestoreHolds ==
    ASSUME Quiesced, ~Damages
    PROVE  AnySpec => [](\A r \in Restores : RestoreHolds(r))
<1>1. AnyInit => \A r \in Restores : RestoreHolds(r)
  BY IdleRow DEF AnyInit, RestoreHolds, Runs, BackupAt
<1>2. Sound /\ Alone /\ (\A r \in Restores : RestoreHolds(r)) /\ [UpgradeNext]_vars
        => (\A r \in Restores : RestoreHolds(r))'
  BY RestoreHoldsStep
<1> QED
  BY <1>1, <1>2, AnySound, AnyAlone, PTL DEF AnySpec

(***************************************************************************)
(* Where everything else is stopped during a restore, as the runbook asks, *)
(* and the database is not damaged from outside: at whichever step a       *)
(* restore, its rollback, a daily run or an upgrade fails or is killed, a  *)
(* change that leaves the database is in a healthy file of the backup      *)
(* directory.                                                              *)
(***************************************************************************)
THEOREM CommittedIsNeverLost ==
    ASSUME Quiesced, ~Damages
    PROVE  (Spec => NothingDropped) /\ (UpgradeSpec => NothingDropped)
<1>1. Sound /\ Migrating /\ (\A r \in Restores : RestoreHolds(r)) /\ [UpgradeNext]_vars =>
        [ Healthy(active) /\ ~(active.writes \subseteq active'.writes)
            => \E n \in Names : Healthy(files'[n]) /\ active.writes \subseteq files'[n].writes
        ]_vars
  <2> SUFFICES ASSUME Sound, Migrating, \A r \in Restores : RestoreHolds(r), UpgradeNext,
                      Healthy(active), ~(active.writes \subseteq active'.writes)
               PROVE  \E n \in Names : files'[n] = active
    BY DEF Healthy
  <2>1. ASSUME Grows
        PROVE  FALSE
    <3>1. PICK W \in SUBSET (Writes \ active.writes) : active' = Whole(active.writes \cup W)
      BY <2>1 DEF Grows
    <3>2. active'.writes = active.writes \cup W
      BY <3>1 DEF Whole, Outdated
    <3> QED
      BY <3>2
  <2>2. PICK r \in Runs : StepOf(r) /\ active' # active
    BY <2>1, OneRunOrWorld, WorldChange
  <2>3. ~UpgradeWrites(r)
    <3>1. active.state = "whole"
      BY DEF Healthy
    <3>2. ~UpgradeCommit(r) \/ r \notin Upgrades
      BY Contents DEF UpgradeCommit, Migrating
    <3> QED
      BY <3>1, <3>2 DEF UpgradeWrites
  <2>4. Replaces(r)
    BY <2>1, <2>2, <2>3, ActiveChange
  <2>5. RestoreHolds(r) /\ active.state # "absent" /\ Typed
    BY <2>4 DEF Replaces, Healthy, Sound
  <2>6. CASE run[r].pc = "saved"
    BY <2>4, <2>5, <2>6 DEF Replaces, RestoreHolds
  <2>7. CASE run[r].pc = "rolling"
    BY <2>4, <2>5, <2>7 DEF Replaces, RestoreHolds
  <2>8. ASSUME NEW n \in Available("failed"), Store(n, active)
        PROVE  \E m \in Names : files'[m] = active
    <3>1. n \in Names /\ active \in Content
      BY <2>5 DEF Available, Typed
    <3> QED
      BY <2>5, <2>8, <3>1, StoreFile
  <2> QED
    BY <2>4, <2>6, <2>7, <2>8 DEF Replaces
<1> QED
  BY <1>1, AnySound, AnyMigrating, AnyRestoreHolds, SpecIsAny, UpgradeSpecIsAny, PTL
     DEF AnySpec, NothingDropped

-----------------------------------------------------------------------------
(* A daily run, one at a time *)

(***************************************************************************)
(* The scheduler of the runbook starts one run of the daily job at a time. *)
(***************************************************************************)
OneDaily == \A c, d \in Dailies : c = d

LEMMA DailyFileRun ==
    ASSUME Sound, [UpgradeNext]_vars, NEW n \in Names, n.kind = "daily", files'[n] # files[n]
    PROVE  \E d \in Dailies : StepOf(d) /\ MayChange(d, n)
<1>1. PICK r \in Runs : StepOf(r) /\ MayChange(r, n)
  BY OneRunOrWorld, WorldSound, FileChange
<1>2. r \in Dailies
  <2>1. CASE run[r].pc \in BackupAt \cup {"preserving"} /\ n = run[r].name
    BY <2>1 DEF Sound, Fits, KindOf
  <2>2. CASE run[r].pc = "prune"
    BY <2>2 DEF Sound, Fits, DailyAt
  <2> QED
    BY <1>1, <2>1, <2>2 DEF MayChange
<1> QED
  BY <1>1, <1>2

LEMMA DailyFileStays ==
    ASSUME OneDaily, Sound, [UpgradeNext]_vars, NEW d \in Dailies,
           NEW n \in Names, n.kind = "daily", files'[n] # files[n]
    PROVE  StepOf(d)
BY DailyFileRun DEF OneDaily

(***************************************************************************)
(* While a daily run is under way and no restore is, the database only     *)
(* gains changes, or breaks.                                               *)
(***************************************************************************)
LEMMA DatabaseOnlyGrows ==
    ASSUME Quiesced, Sound, Migrating, Alone, [UpgradeNext]_vars,
           NEW d \in Dailies, ~Ended(d), active.state # "absent",
           NEW W, W \subseteq active.writes \/ active.state = "broken"
    PROVE  /\ active'.state # "absent"
           /\ W \subseteq active'.writes \/ active'.state = "broken"
<1>1. CASE active' = active
  BY <1>1
<1>2. CASE Grows
  <2>1. PICK V \in SUBSET (Writes \ active.writes) : active' = Whole(active.writes \cup V)
    BY <1>2 DEF Grows
  <2>2. active'.writes = active.writes \cup V /\ active'.state = "whole"
    BY <2>1 DEF Whole, Outdated
  <2>3. active.state = "whole"
    BY <1>2 DEF Grows, Healthy
  <2> QED
    BY <2>2, <2>3
<1>3. CASE active' = Broken
  BY <1>3, Contents
<1>4. ASSUME NEW r \in Runs, Replaces(r)
      PROVE  FALSE
  <2>1. ~Ended(r) /\ r # d /\ d \in Runs /\ r \in Restores
    BY <1>4, BackupConstants DEF Replaces, Ended, Runs
  <2> QED
    BY <2>1 DEF Alone
<1>5. ASSUME NEW u \in Runs, UpgradeWrites(u)
      PROVE  active'.state # "absent" /\ W \subseteq active'.writes
  <2>1. u \in Upgrades /\ UpgradeCommit(u)
    BY <1>5 DEF UpgradeWrites
  <2>2. /\ active' = Whole(run[u].staged.writes) /\ run[u].staged.writes = active.writes
        /\ active.state \in {"empty", "whole"}
    BY <2>1 DEF UpgradeCommit, Migrating
  <2> QED
    BY <2>2 DEF Whole, Outdated
<1> QED
  BY <1>1, <1>2, <1>3, <1>4, <1>5, OneRunOrWorld, ActiveChange, WorldChange DEF vars

(***************************************************************************)
(* What a daily run relies on: what was there when it began is in the      *)
(* database until it ends, its backup holds nothing that the database does *)
(* not hold, and retention never lists the backup of its own run.          *)
(***************************************************************************)
Undoable(d) ==
    /\ ~Ended(d) => /\ active.state # "absent"
                    /\ run[d].base \subseteq active.writes \/ active.state = "broken"
    /\ run[d].pc \in DailyAt \cup {"copied"} =>
         files[run[d].name].writes \subseteq active.writes \/ active.state = "broken"
    /\ run[d].pc = "copied" /\ Healthy(files[run[d].name]) =>
         run[d].base \subseteq files[run[d].name].writes
    /\ run[d].pc \in BackupAt => ~run[d].verified
    /\ run[d].pc \in DailyAt => run[d].verified
    /\ ~run[d].verified => run[d].mine = {}
    /\ run[d].verified =>
         /\ run[d].name \in Names /\ Healthy(files[run[d].name])
         /\ run[d].base \subseteq files[run[d].name].writes
         /\ run[d].mine \cap files[run[d].name].writes = {}
    /\ run[d].name \notin run[d].todo

LEMMA UndoableElsewhere ==
    ASSUME OneDaily, Quiesced, Sound, Migrating, Alone, [UpgradeNext]_vars,
           NEW d \in Dailies, Undoable(d), ~StepOf(d)
    PROVE  Undoable(d)'
<1>1. d \in Runs /\ run'[d] = run[d]
  BY OneRunOrWorld, OthersStay, WorldSound DEF Runs, vars
<1>2. ASSUME run[d].name \in Names
      PROVE  files'[run[d].name] = files[run[d].name]
  BY <1>1, <1>2, DailyFileStays, KindsApart DEF Sound, Fits
<1>3. run[d].pc \in DailyAt \cup BackupAt => run[d].name \in Names /\ ~Ended(d)
  BY <1>1 DEF Sound, Fits, Ended, DailyAt, BackupAt
<1>4. ~Ended(d) => /\ active'.state # "absent"
                   /\ run[d].base \subseteq active'.writes \/ active'.state = "broken"
  BY DatabaseOnlyGrows DEF Undoable
<1>5. run[d].pc \in DailyAt \cup {"copied"} =>
        files[run[d].name].writes \subseteq active'.writes \/ active'.state = "broken"
  BY <1>3, DatabaseOnlyGrows DEF Undoable, BackupAt
<1> QED
  BY <1>1, <1>2, <1>3, <1>4, <1>5 DEF Undoable, Ended, Healthy, BackupAt

LEMMA UndoableBackup ==
    ASSUME Sound, NEW d \in Dailies, Undoable(d), BackupStep(d)
    PROVE  Undoable(d)'
<1>1. d \in Runs /\ Typed
  BY DEF Runs, Sound
<1>2. CASE BackupStart(d)
  <2>1. PICK n \in Names : Begins(d, "named", n, NoName, active.writes)
    BY <1>1, <1>2, BackupStartRow DEF Available
  <2>2. active.state # "absent" /\ active' = active
    BY <1>2 DEF BackupStart
  <2> QED
    BY <2>1, <2>2 DEF Begins, Moves, Undoable, BackupAt, DailyAt
<1>3. ASSUME NEW pc \in {"touched", "copied"}, Goto(d, pc), run[d].pc \in BackupAt,
             UNCHANGED active, pc = "copied" => files'[run[d].name] = active
      PROVE  Undoable(d)'
  <2>1. Goes(d, pc)
    BY <1>1, <1>3, GotoRow DEF Pcs
  <2> QED
    BY <1>3, <2>1 DEF Goes, Moves, Undoable, BackupAt, DailyAt, Ended, Healthy
<1>4. CASE BackupTouch(d)
  BY <1>3, <1>4 DEF BackupTouch, BackupAt
<1>5. CASE BackupSnapshot(d)
  <2>1. run[d].pc = "touched" /\ run[d].name \in Names
    BY <1>1, <1>5 DEF BackupSnapshot, Sound, Fits, BackupAt
  <2>2. files'[run[d].name] = active
    BY <1>1, <1>5, <2>1, StoreFile DEF BackupSnapshot, Typed
  <2> QED
    BY <1>3, <1>5, <2>1, <2>2 DEF BackupSnapshot, BackupAt
<1>6. CASE BackupVerify(d)
  <2>1. run[d].pc = "copied" /\ run[d].name \in Names /\ Healthy(files[run[d].name])
        /\ UNCHANGED <<active, files>>
    BY <1>1, <1>6 DEF BackupVerify, Sound, Fits, BackupAt
  <2>2. Moves(d, "sync", run[d].name, run[d].source, run[d].staged, run[d].todo, TRUE,
              run[d].base, run[d].mine)
    BY <1>1, <1>6, BackupVerifyRow
  <2> QED
    BY <2>1, <2>2 DEF Moves, Undoable, BackupAt, DailyAt, Ended, Healthy
<1> QED
  BY <1>2, <1>4, <1>5, <1>6 DEF BackupStep

LEMMA UndoableEnd ==
    ASSUME Sound, NEW d \in Dailies, Undoable(d),
           NEW pc \in {"idle", "done", "failed"}, End(d, pc),
           run[d].verified => files' = files
    PROVE  Undoable(d)'
<1>1. Ends(d, pc)
  BY EndRow DEF Pcs, Runs, Sound
<1> QED
  BY <1>1 DEF Ends, Moves, Undoable, Ended, BackupAt, DailyAt, Healthy

LEMMA UndoableDaily ==
    ASSUME Sound, NEW d \in Dailies, Undoable(d), DailyStep(d)
    PROVE  Undoable(d)'
<1>1. d \in Runs /\ Typed /\ run[d].pc \in DailyAt
  BY DEF Runs, Sound, DailyStep, DailySync, DailySynced, DailyGenerate, DailyList, DailyDelete,
     DailyDone, DailyAt
<1>2. /\ run[d].name \in Names /\ run[d].verified /\ run[d].mine \subseteq Writes
      /\ Healthy(files[run[d].name])
      /\ run[d].base \subseteq files[run[d].name].writes
      /\ run[d].mine \cap files[run[d].name].writes = {}
      /\ files[run[d].name].writes \subseteq active.writes \/ active.state = "broken"
      /\ run[d].name \notin run[d].todo /\ active.state # "absent"
      /\ ~Ended(d)
  BY <1>1, RowOf DEF Undoable, DailyAt, Ended
<1>3. ASSUME NEW pc \in DailyAt, NEW W \in SUBSET (Writes \ active.writes), Healthy(active),
             active' = Whole(active.writes \cup W), UNCHANGED files,
             Moves(d, pc, run[d].name, run[d].source, run[d].staged, run[d].todo,
                   run[d].verified, run[d].base, run[d].mine \cup W)
      PROVE  Undoable(d)'
  <2>1. active'.writes = active.writes \cup W /\ active'.state = "whole"
    BY <1>3 DEF Whole, Outdated
  <2>2. active.state # "broken"
    BY <1>3 DEF Healthy
  <2>3. files[run[d].name].writes \subseteq active.writes
    BY <1>2, <2>2
  <2>4. (run[d].mine \cup W) \cap files[run[d].name].writes = {}
    BY <1>2, <2>3
  <2>5. run[d].base \subseteq active'.writes /\ files[run[d].name].writes \subseteq active'.writes
    BY <1>2, <2>1, <2>3
  <2> QED
    BY <1>2, <1>3, <2>1, <2>4, <2>5 DEF Moves, Undoable, Ended, BackupAt, DailyAt, Healthy
<1>4. CASE DailySync(d)
  <2>1. PICK w \in Writes \ active.writes :
          /\ active' = Whole(active.writes \cup {w})
          /\ Moves(d, run[d].pc, run[d].name, run[d].source, run[d].staged, run[d].todo,
                   run[d].verified, run[d].base, run[d].mine \cup {w})
    BY <1>1, <1>4, DailySyncRow
  <2> QED
    BY <1>1, <1>3, <1>4, <2>1 DEF DailySync
<1>5. CASE DailySynced(d)
  <2>1. PICK pc \in {"generate", "list"} : Goto(d, pc)
    BY <1>5 DEF DailySynced
  <2>2. Goes(d, pc) /\ UNCHANGED <<active, files>>
    BY <1>1, <1>5, <2>1, GotoRow DEF DailySynced, Pcs
  <2> QED
    BY <1>2, <2>1, <2>2 DEF Goes, Moves, Undoable, Ended, BackupAt, DailyAt, Healthy
<1>6. CASE DailyGenerate(d)
  <2>1. PICK W \in SUBSET (Writes \ active.writes) :
          /\ active' = Whole(active.writes \cup W)
          /\ Moves(d, "list", run[d].name, run[d].source, run[d].staged, run[d].todo,
                   run[d].verified, run[d].base, run[d].mine \cup W)
    BY <1>1, <1>6, DailyGenerateRow
  <2> QED
    BY <1>3, <1>6, <2>1 DEF DailyGenerate, DailyAt
<1>7. CASE DailyList(d)
  <2>1. /\ UNCHANGED <<active, files>>
        /\ Moves(d, "prune", run[d].name, run[d].source, run[d].staged,
                 ToDelete(run[d].name), run[d].verified, run[d].base, run[d].mine)
    BY <1>1, <1>7, DailyListRow DEF DailyList
  <2>2. run[d].name \notin ToDelete(run[d].name)
    BY DEF ToDelete
  <2> QED
    BY <1>1, <1>2, <2>1, <2>2 DEF Moves, Undoable, Ended, BackupAt, DailyAt, Healthy
<1>8. CASE DailyDelete(d)
  <2>1. PICK f \in run[d].todo :
          /\ Store(f, Absent)
          /\ Moves(d, run[d].pc, run[d].name, run[d].source, run[d].staged,
                   run[d].todo \ {f}, run[d].verified, run[d].base, run[d].mine)
    BY <1>1, <1>8, DailyDeleteRow
  <2>2. files'[run[d].name] = files[run[d].name] /\ active' = active
    BY <1>1, <1>2, <1>8, <2>1, RowOf, StoreFile, Contents DEF DailyDelete
  <2>3. run[d].pc = "prune"
    BY <1>8 DEF DailyDelete
  <2> QED
    BY <1>2, <2>1, <2>2, <2>3 DEF Moves, Undoable, Ended, BackupAt, DailyAt, Healthy
<1>9. CASE DailyDone(d)
  BY <1>9, UndoableEnd DEF DailyDone
<1> QED
  BY <1>4, <1>5, <1>6, <1>7, <1>8, <1>9 DEF DailyStep

LEMMA UndoableStep ==
    ASSUME OneDaily, Quiesced, Sound, Migrating, Alone, \A d \in Dailies : Undoable(d),
           [UpgradeNext]_vars, NEW d \in Dailies
    PROVE  Undoable(d)'
<1>1. d \in Runs /\ d \notin Restores \cup Upgrades
  BY BackupConstants DEF Runs
<1>2. CASE BackupFails(d)
  BY <1>2, UndoableEnd DEF BackupFails, Undoable, BackupAt
<1>3. CASE StepFails(d) \/ Crash(d)
  BY <1>3, UndoableEnd DEF StepFails, Crash
<1> QED
  BY <1>1, <1>2, <1>3, UndoableElsewhere, UndoableBackup, UndoableDaily DEF StepOf

LEMMA AnyUndoable ==
    ASSUME OneDaily, Quiesced
    PROVE  AnySpec => [](\A d \in Dailies : Undoable(d))
<1>1. AnyInit => \A d \in Dailies : Undoable(d)
  BY IdleRow DEF AnyInit, Undoable, Runs, Ended, BackupAt, DailyAt
<1>2. Sound /\ Migrating /\ Alone /\ (\A d \in Dailies : Undoable(d)) /\ [UpgradeNext]_vars
        => (\A d \in Dailies : Undoable(d))'
  BY UndoableStep
<1> QED
  BY <1>1, <1>2, AnySound, AnyMigrating, AnyAlone, PTL DEF AnySpec

(***************************************************************************)
(* Where one daily run is under way at a time and restores run alone, as   *)
(* the runbook asks, every daily run that began its work can be undone,    *)
(* also while backups and upgrades run beside it, when the database breaks *)
(* under it, and wherever it fails or is killed.                           *)
(***************************************************************************)
THEOREM DailyRunsAreUndoable ==
    ASSUME OneDaily, Quiesced
    PROVE  (Spec => []DailyUndoable) /\ (UpgradeSpec => []DailyUndoable)
<1>1. (\A d \in Dailies : Undoable(d)) => DailyUndoable
  BY DEF Undoable, DailyUndoable
<1> QED
  BY <1>1, AnyUndoable, SpecIsAny, UpgradeSpecIsAny, PTL

-----------------------------------------------------------------------------
(* Retention *)

LEMMA NamesAreFinite == IsFiniteSet(Names)
<1> DEFINE Kinds == {"daily", "manual", "safety", "failed", "bak"}
           Keys == (Kinds \X (0 .. MaxTime)) \X (0 .. MaxSuffix)
           named == [k \in Keys |-> [kind |-> k[1][1], time |-> k[1][2], suffix |-> k[2]]]
<1>1. IsFiniteSet({"daily", "manual", "safety"})
  <2>1. IsFiniteSet({"daily"} \cup {"manual"})
    BY FS_Singleton, FS_AddElement
  <2>2. IsFiniteSet(({"daily"} \cup {"manual"}) \cup {"safety"})
    BY <2>1, FS_AddElement
  <2>3. ({"daily"} \cup {"manual"}) \cup {"safety"} = {"daily", "manual", "safety"}
    OBVIOUS
  <2> QED
    BY <2>2, <2>3
<1>2. IsFiniteSet(Kinds)
  <2>1. IsFiniteSet({"daily", "manual", "safety"} \cup {"failed"})
    BY <1>1, FS_AddElement
  <2>2. IsFiniteSet(({"daily", "manual", "safety"} \cup {"failed"}) \cup {"bak"})
    BY <2>1, FS_AddElement
  <2>3. Kinds = ({"daily", "manual", "safety"} \cup {"failed"}) \cup {"bak"}
    OBVIOUS
  <2> QED
    BY <2>2, <2>3
<1>3. IsFiniteSet(0 .. MaxTime) /\ IsFiniteSet(0 .. MaxSuffix)
  BY FS_Interval, BackupConstants
<1>4. IsFiniteSet(Keys)
  <2> HIDE DEF Kinds
  <2> QED
    BY <1>2, <1>3, FS_Product
<1>5. named \in Surjection(Keys, Names)
  <2>1. named \in [Keys -> Names]
    BY DEF Names
  <2>2. ASSUME NEW n \in Names
        PROVE  \E k \in Keys : named[k] = n
    <3> DEFINE key == <<<<n.kind, n.time>>, n.suffix>>
    <3>1. key \in Keys
      BY DEF Names
    <3>2. named[key] = n
      BY <3>1 DEF Names
    <3> QED
      BY <3>1, <3>2
  <2> HIDE DEF named, Keys
  <2> QED
    BY <2>1, <2>2 DEF Surjection
<1> QED
  <2> HIDE DEF named, Keys
  <2> QED
    BY <1>4, <1>5, FS_Surjection

(***************************************************************************)
(* Names of one kind are ordered by time and suffix.                       *)
(***************************************************************************)
LEMMA NewerIsAnOrder ==
    /\ \A f \in Names : ~Newer(f, f)
    /\ \A f, g, h \in Names : Newer(f, g) /\ Newer(g, h) => Newer(f, h)
    /\ \A f, g \in Names : f.kind = g.kind => f = g \/ Newer(f, g) \/ Newer(g, f)
<1>1. /\ \A f \in Names : f.time \in Int /\ f.suffix \in Int
      /\ \A f, g \in Names :
           f.kind = g.kind /\ f.time = g.time /\ f.suffix = g.suffix => f = g
  BY BackupConstants DEF Names
<1> QED
  BY <1>1 DEF Newer

(***************************************************************************)
(* Of some names of one kind, one is the oldest.                           *)
(***************************************************************************)
LEMMA OldestExists ==
    ASSUME NEW S \in SUBSET Names, S # {}, \A f, g \in S : f.kind = g.kind
    PROVE  \E f \in S : \A g \in S \ {f} : Newer(g, f)
<1> DEFINE Older(f) == {g \in S : Newer(f, g)}
           T == {Older(f) : f \in S}
<1>1. IsFiniteSet(S)
  BY NamesAreFinite, FS_Subset
<1>2. T \subseteq FiniteSubsetsOf(S) /\ T # {}
  <2>1. \A f \in S : Older(f) \in SUBSET S /\ IsFiniteSet(Older(f))
    BY <1>1, FS_Subset
  <2> QED
    BY <2>1 DEF FiniteSubsetsOf
<1>3. PICK x \in T : \A y \in T : <<y, x>> \notin StrictSubsetOrdering(S)
  <2> HIDE DEF T
  <2> QED
    BY <1>2, FS_StrictSubsetOrderingWellFounded, WFMin
<1>4. PICK f \in S : x = Older(f)
  OBVIOUS
<1>5. ASSUME NEW g \in Older(f)
      PROVE  FALSE
  <2>1. Older(g) \subseteq Older(f) /\ g \notin Older(g) /\ g \in S
    BY <1>5, NewerIsAnOrder
  <2>2. Older(g) \in T /\ Older(g) \in SUBSET S /\ Older(f) \in SUBSET S
    BY <2>1
  <2>3. <<Older(g), Older(f)>> \in StrictSubsetOrdering(S)
    BY <1>5, <2>1, <2>2 DEF StrictSubsetOrdering
  <2> QED
    BY <1>3, <1>4, <2>2, <2>3
<1> QED
  BY <1>5, NewerIsAnOrder

(***************************************************************************)
(* What retention may count on: the daily backups besides the current one, *)
(* and those of them that are newer than one of them.                      *)
(***************************************************************************)
Others(current) == DailyFiles \ {current}
NewerOthers(current, f) == {g \in Others(current) : Newer(g, f)}

LEMMA OthersFinite ==
    ASSUME NEW current, NEW S, S \subseteq Others(current)
    PROVE  IsFiniteSet(S) /\ Cardinality(S) \in Nat /\ S \in SUBSET Names
BY NamesAreFinite, FS_Subset, FS_CardinalityType DEF Others, DailyFiles

(***************************************************************************)
(* The backups that ToDelete leaves besides the current one are at most    *)
(* Keep - 1: all but the oldest of them are newer than it.                 *)
(***************************************************************************)
LEMMA ToDeleteLeavesFew ==
    ASSUME NEW current
    PROVE  Cardinality(Others(current) \ ToDelete(current)) <= Keep - 1
<1> DEFINE S == Others(current) \ ToDelete(current)
<1>1. Keep \in Nat \ {0}
  BY BackupConstants
<1>2. S \in SUBSET Names /\ IsFiniteSet(S) /\ Cardinality(S) \in Nat
      /\ \A f, g \in S : f.kind = g.kind
  BY OthersFinite DEF Others, DailyFiles
<1>3. \A f \in S : ~(Cardinality(NewerOthers(current, f)) >= Keep - 1)
  BY DEF ToDelete, Others, NewerOthers
<1>4. S \subseteq Others(current)
  OBVIOUS
<1> HIDE DEF S
<1>5. CASE S = {}
  BY <1>1, <1>5, FS_EmptySet DEF S
<1>6. CASE S # {}
  <2>1. PICK f \in S : \A g \in S \ {f} : Newer(g, f)
    BY <1>2, <1>6, OldestExists
  <2>2. S \ {f} \subseteq NewerOthers(current, f)
    BY <1>4, <2>1 DEF NewerOthers
  <2>3. NewerOthers(current, f) \subseteq Others(current)
    BY DEF NewerOthers
  <2>4. Cardinality(S \ {f}) <= Cardinality(NewerOthers(current, f))
    BY <2>2, <2>3, OthersFinite, FS_Subset
  <2>5. Cardinality(S \ {f}) = Cardinality(S) - 1
    BY <1>2, FS_RemoveElement
  <2>6. Cardinality(NewerOthers(current, f)) \in Nat
    BY <2>3, OthersFinite
  <2> QED
    BY <1>1, <1>2, <1>3, <2>4, <2>5, <2>6 DEF S
<1> QED
  BY <1>5, <1>6

(***************************************************************************)
(* While a daily run deletes: its own backup is there, enough newer ones   *)
(* stay for each that is still to be deleted, and few enough stay in all.  *)
(***************************************************************************)
Pruning(d) ==
    /\ run[d].pc = "prune" =>
         /\ Exists(run[d].name) /\ run[d].name \notin run[d].todo
         /\ \A f \in run[d].todo :
              f.kind = "daily" /\ Cardinality(NewerOthers(run[d].name, f)) >= Keep - 1
         /\ Cardinality(Others(run[d].name) \ run[d].todo) <= Keep - 1
    /\ run[d].pc = "done" => Cardinality(DailyFiles) <= Keep
LEMMA PruningFrom ==
    ASSUME NEW d, NEW n, run'[d].name = n, run'[d].pc = "prune",
           Exists(n)', n \notin run'[d].todo,
           \A f \in run'[d].todo :
             f.kind = "daily" /\ Cardinality({g \in DailyFiles' \ {n} : Newer(g, f)}) >= Keep - 1,
           Cardinality((DailyFiles' \ {n}) \ run'[d].todo) <= Keep - 1
    PROVE  Pruning(d)'
BY DEF Pruning, Others, NewerOthers, Exists

LEMMA PruningElsewhere ==
    ASSUME OneDaily, Sound, [UpgradeNext]_vars, NEW d \in Dailies, Pruning(d), ~StepOf(d)
    PROVE  Pruning(d)'
<1>1. d \in Runs /\ run'[d] = run[d]
  BY OneRunOrWorld, OthersStay, WorldSound DEF Runs, vars
<1>2. \A n \in Names : n.kind = "daily" => files'[n] = files[n]
  BY DailyFileStays
<1>3. DailyFiles' = DailyFiles
  BY <1>2 DEF DailyFiles, Exists
<1>4. CASE run[d].pc = "prune"
  <2>1. run[d].name \in Names /\ run[d].name.kind = "daily"
    BY <1>1, <1>4, KindsApart DEF Sound, Fits, DailyAt
  <2>2. PICK n : n = run[d].name
    OBVIOUS
  <2>3. Exists(n)'
    BY <1>2, <1>4, <2>1, <2>2 DEF Pruning, Exists
  <2> QED
    BY <1>1, <1>3, <1>4, <2>2, <2>3, PruningFrom DEF Pruning, Others, NewerOthers
<1>5. CASE run[d].pc # "prune"
  BY <1>1, <1>3, <1>5 DEF Pruning
<1> QED
  BY <1>4, <1>5

(***************************************************************************)
(* The file that goes is newer than the others that are still to go, so    *)
(* each of these keeps the newer ones that it had.                         *)
(***************************************************************************)
LEMMA PruningDelete ==
    ASSUME Sound, NEW d \in Dailies, Pruning(d), DailyDelete(d)
    PROVE  /\ Pruning(d)' /\ Exists(run[d].name)'
           /\ \E f \in run[d].todo :
                /\ \A m \in Names \ {f} : files'[m] = files[m]
                /\ Cardinality({g \in DailyFiles' \ {run[d].name} : Newer(g, f)}) >= Keep - 1
<1>1. d \in Runs /\ Typed /\ run[d].pc = "prune" /\ run[d].name \in Names
  BY DEF Runs, Sound, Fits, DailyDelete, DailyAt
<1>2. PICK f \in run[d].todo :
        /\ \A g \in run[d].todo \ {f} : Newer(f, g)
        /\ Exists(f) /\ Store(f, Absent)
        /\ Moves(d, run[d].pc, run[d].name, run[d].source, run[d].staged,
                 run[d].todo \ {f}, run[d].verified, run[d].base, run[d].mine)
  BY <1>1, DailyDeleteRow
<1>3. PICK n : n = run[d].name
  OBVIOUS
<1>4. f \in Names /\ f # n /\ f.kind = "daily" /\ run[d].todo \subseteq Names
      /\ n \in Names /\ n \notin run[d].todo /\ Exists(n)
  BY <1>1, <1>3, RowOf DEF Pruning
<1>5. files'[f] = Absent /\ \A m \in Names \ {f} : files'[m] = files[m]
  BY <1>1, <1>2, <1>4, StoreFile, Contents
<1>6. DailyFiles' = DailyFiles \ {f} /\ f \in DailyFiles
  BY <1>2, <1>4, <1>5, Contents DEF DailyFiles, Exists
<1>7. {g \in DailyFiles' \ {n} : Newer(g, f)} = NewerOthers(n, f)
  <2>1. ~Newer(f, f)
    BY <1>4, NewerIsAnOrder
  <2> QED
    BY <1>6, <2>1 DEF NewerOthers, Others
<1>8. Cardinality(NewerOthers(n, f)) >= Keep - 1
  BY <1>1, <1>3 DEF Pruning
<1>9. ASSUME NEW h \in run[d].todo \ {f}
      PROVE  Cardinality({g \in DailyFiles' \ {n} : Newer(g, h)}) >= Keep - 1
  <2> DEFINE S == {g \in DailyFiles' \ {n} : Newer(g, h)}
  <2>1. S \subseteq Others(n)
    BY <1>6 DEF Others
  <2>2. NewerOthers(n, f) \subseteq S
    <3>1. Newer(f, h) /\ h \in Names
      BY <1>2, <1>4
    <3>2. \A g \in DailyFiles : g \in Names
      BY DEF DailyFiles
    <3>3. \A g \in DailyFiles : Newer(g, f) => Newer(g, h) /\ g # f
      BY <1>4, <3>1, <3>2, NewerIsAnOrder
    <3> QED
      BY <1>6, <3>3 DEF NewerOthers, Others
  <2> HIDE DEF S
  <2>3. IsFiniteSet(S) /\ Cardinality(S) \in Nat
    BY <2>1, OthersFinite
  <2>4. Cardinality(NewerOthers(n, f)) <= Cardinality(S)
    BY <2>2, <2>3, FS_Subset
  <2>5. Cardinality(NewerOthers(n, f)) \in Nat
    BY OthersFinite DEF NewerOthers
  <2> QED
    BY <1>8, <2>3, <2>4, <2>5, BackupConstants DEF S
<1>10. (DailyFiles' \ {n}) \ (run[d].todo \ {f}) = Others(n) \ run[d].todo
  BY <1>6 DEF Others
<1>11. Exists(n)'
  BY <1>4, <1>5 DEF Exists
<1>12. Pruning(d)'
  <2>1. run'[d].name = n /\ run'[d].pc = "prune" /\ run'[d].todo = run[d].todo \ {f}
    BY <1>1, <1>2, <1>3 DEF Moves
  <2>2. \A h \in run[d].todo : h.kind = "daily"
    BY <1>1 DEF Pruning
  <2>3. Cardinality((DailyFiles' \ {n}) \ run'[d].todo) <= Keep - 1
    BY <1>1, <1>3, <1>10, <2>1 DEF Pruning
  <2> QED
    BY <1>4, <1>9, <1>11, <2>1, <2>2, <2>3, PruningFrom
<1>13. Exists(run[d].name)'
  <2>1. run'[d].name = run[d].name
    BY <1>2 DEF Moves
  <2> QED
    BY <1>3, <1>11, <2>1 DEF Exists
<1> QED
  BY <1>3, <1>5, <1>7, <1>8, <1>12, <1>13

LEMMA PruningStep ==
    ASSUME OneDaily, Sound, \A d \in Dailies : Pruning(d), [UpgradeNext]_vars, NEW d \in Dailies
    PROVE  Pruning(d)'
<1>1. d \in Runs /\ d \notin Copies \cup Restores \cup Upgrades /\ Typed
  BY BackupConstants DEF Runs, Sound
<1>2. ASSUME NEW pc \in Pcs \ {"prune", "done"}, run'[d].pc = pc
      PROVE  Pruning(d)'
  BY <1>2 DEF Pruning
<1>3. ASSUME NEW pc \in Pcs \ {"prune", "done"}, Goto(d, pc) \/ End(d, pc)
      PROVE  Pruning(d)'
  BY <1>1, <1>2, <1>3, GotoRow, EndRow DEF Goes, Ends, Moves
<1>4. CASE BackupStep(d) \/ BackupFails(d) \/ StepFails(d) \/ Crash(d)
  <2>1. CASE BackupStart(d)
    BY <1>1, <1>2, <2>1, BackupStartRow DEF Begins, Moves, Pcs
  <2>2. CASE BackupVerify(d)
    BY <1>1, <1>2, <2>2, BackupVerifyRow DEF Moves, Pcs
  <2> QED
    BY <1>3, <1>4, <2>1, <2>2 DEF BackupStep, BackupTouch, BackupSnapshot, BackupFails,
       StepFails, Crash, Pcs
<1>5. CASE DailySync(d) \/ DailySynced(d) \/ DailyGenerate(d)
  <2>1. CASE DailySync(d)
    BY <1>1, <1>2, <2>1, DailySyncRow DEF Moves, DailySync, Pcs
  <2>2. CASE DailySynced(d)
    BY <1>3, <2>2 DEF DailySynced, Pcs
  <2>3. CASE DailyGenerate(d)
    BY <1>1, <1>2, <2>3, DailyGenerateRow DEF Moves, Pcs
  <2> QED
    BY <1>5, <2>1, <2>2, <2>3
<1>6. CASE DailyList(d)
  <2>1. PICK n : n = run[d].name
    OBVIOUS
  <2>2. run'[d].name = n /\ run'[d].pc = "prune" /\ run'[d].todo = ToDelete(n)
    BY <1>1, <1>6, <2>1, DailyListRow DEF Moves
  <2>3. Exists(n)' /\ DailyFiles' = DailyFiles
    BY <1>6, <2>1 DEF DailyList, Exists, DailyFiles
  <2>4. n \notin ToDelete(n)
        /\ \A f \in ToDelete(n) :
             f.kind = "daily" /\ Cardinality({g \in DailyFiles \ {n} : Newer(g, f)}) >= Keep - 1
    BY DEF ToDelete, DailyFiles
  <2>5. Cardinality((DailyFiles \ {n}) \ ToDelete(n)) <= Keep - 1
    BY ToDeleteLeavesFew DEF Others
  <2> QED
    BY <2>2, <2>3, <2>4, <2>5, PruningFrom
<1>7. CASE DailyDelete(d)
  BY <1>7, PruningDelete
<1>8. CASE DailyDone(d)
  <2>1. run'[d].pc = "done" /\ run[d].pc = "prune" /\ run[d].todo = {} /\ files' = files
    BY <1>1, <1>8, EndRow DEF DailyDone, Ends, Moves, Pcs
  <2>2. PICK n : n = run[d].name
    OBVIOUS
  <2>3. n \in DailyFiles
    BY <1>1, <2>1, <2>2, KindsApart DEF Pruning, DailyFiles, Sound, Fits, DailyAt
  <2>4. Cardinality(Others(n)) <= Keep - 1 /\ Others(n) \ {} = Others(n)
    BY <2>1, <2>2 DEF Pruning
  <2>5. DailyFiles = Others(n) \cup {n} /\ n \notin Others(n)
    BY <2>3 DEF Others
  <2>6. Cardinality(DailyFiles) = Cardinality(Others(n)) + 1 /\ Cardinality(Others(n)) \in Nat
    BY <2>5, OthersFinite, FS_AddElement
  <2>7. Cardinality(DailyFiles) <= Keep
    BY <2>4, <2>6, BackupConstants
  <2>8. DailyFiles' = DailyFiles
    BY <2>1 DEF DailyFiles, Exists
  <2> QED
    BY <2>1, <2>7, <2>8 DEF Pruning
<1> QED
  BY <1>1, <1>4, <1>5, <1>6, <1>7, <1>8, PruningElsewhere DEF StepOf, DailyStep

LEMMA AnyPruning ==
    ASSUME OneDaily
    PROVE  AnySpec => [](\A d \in Dailies : Pruning(d))
<1>1. AnyInit => \A d \in Dailies : Pruning(d)
  BY IdleRow DEF AnyInit, Pruning, Runs
<1>2. Sound /\ (\A d \in Dailies : Pruning(d)) /\ [UpgradeNext]_vars
        => (\A d \in Dailies : Pruning(d))'
  BY PruningStep
<1> QED
  BY <1>1, <1>2, AnySound, PTL DEF AnySpec

(***************************************************************************)
(* Whatever the clock does and whatever earlier runs that were killed have *)
(* left: a daily run that succeeds leaves at most Keep daily backups.      *)
(***************************************************************************)
THEOREM RetentionIsBounded ==
    ASSUME OneDaily
    PROVE  (Spec => []RetentionBound) /\ (UpgradeSpec => []RetentionBound)
<1>1. (\A d \in Dailies : Pruning(d)) => RetentionBound
  BY DEF Pruning, RetentionBound
<1> QED
  BY <1>1, AnyPruning, SpecIsAny, UpgradeSpecIsAny, PTL

(***************************************************************************)
(* And no step of it, in whatever order the files are found and wherever   *)
(* the run stops, deletes one of the Keep newest that there are.           *)
(***************************************************************************)
THEOREM RetentionKeepsNewest ==
    ASSUME OneDaily
    PROVE  (Spec => PruneKeepsNewest) /\ (UpgradeSpec => PruneKeepsNewest)
<1> DEFINE Gone(f) ==
      Exists(f) /\ ~Exists(f)' /\ f.kind = "daily"
        => \/ \E r \in Runs : run[r].pc \in {"touched", "copied"} /\ run[r].name = f
           \/ \E d \in Dailies :
                /\ Exists(run[d].name)'
                /\ Cardinality({g \in Names \ {run[d].name} :
                     g.kind = "daily" /\ Exists(g)' /\ Newer(g, f)}) >= Keep - 1
<1>1. Sound /\ (\A d \in Dailies : Pruning(d)) /\ [UpgradeNext]_vars =>
        [\A f \in Names : Gone(f)]_vars
  <2> SUFFICES ASSUME Sound, \A d \in Dailies : Pruning(d), UpgradeNext, NEW f \in Names,
                      Exists(f), ~Exists(f)', f.kind = "daily"
               PROVE  Gone(f)
    OBVIOUS
  <2>1. files'[f] # files[f]
    BY DEF Exists
  <2>2. PICK d \in Dailies : StepOf(d) /\ MayChange(d, f)
    BY <2>1, DailyFileRun
  <2>3. d \in Runs /\ d \notin Copies \cup Restores \cup Upgrades
    BY BackupConstants DEF Runs
  <2>4. CASE run[d].pc \in {"touched", "copied"} /\ run[d].name = f
    BY <2>3, <2>4
  <2>5. ASSUME run[d].pc = "named", run[d].name = f
        PROVE  FALSE
    BY <2>1, <2>2, <2>3, <2>5 DEF StepOf, BackupStep, BackupStart, BackupTouch, BackupSnapshot,
       BackupVerify, BackupFails, StepFails, Crash, DailyStep, DailySync, DailySynced,
       DailyGenerate, DailyList, DailyDelete, DailyDone
  <2>6. CASE run[d].pc = "prune"
    <3>1. DailyDelete(d)
      BY <2>1, <2>2, <2>3, <2>6 DEF StepOf, BackupStep, BackupStart, BackupTouch, BackupSnapshot,
         BackupVerify, BackupFails, StepFails, Crash, DailyStep, DailySync, DailySynced,
         DailyGenerate, DailyList, DailyDone
    <3>2. /\ Exists(run[d].name)'
          /\ \E h \in run[d].todo :
               /\ \A m \in Names \ {h} : files'[m] = files[m]
               /\ Cardinality({g \in DailyFiles' \ {run[d].name} : Newer(g, h)}) >= Keep - 1
      BY <3>1, PruningDelete
    <3>3. Cardinality({g \in DailyFiles' \ {run[d].name} : Newer(g, f)}) >= Keep - 1
      BY <2>1, <3>2
    <3>4. {g \in DailyFiles' \ {run[d].name} : Newer(g, f)}
            = {g \in Names \ {run[d].name} : g.kind = "daily" /\ Exists(g)' /\ Newer(g, f)}
      BY DEF DailyFiles
    <3> QED
      BY <3>2, <3>3, <3>4
  <2> QED
    BY <2>2, <2>3, <2>4, <2>5, <2>6 DEF MayChange, BackupAt, Sound, Fits, UpgradeAt
<1> QED
  BY <1>1, AnySound, AnyPruning, SpecIsAny, UpgradeSpecIsAny, PTL DEF AnySpec, PruneKeepsNewest
=============================================================================
