------------------------------ MODULE Backups ------------------------------
(***************************************************************************)
(* Backups: the nightly script stages a copy of every database, writes one *)
(* archive and prunes the old ones by day and by week; the console lists   *)
(* and inspects archives and restores one tenant's database beside the     *)
(* live one, under _trash.  Script, restores and clock interleave freely.  *)
(***************************************************************************)
EXTENDS Naturals, FiniteSets, FiniteSetsExt

CONSTANTS
    BTenants,
    Slugs,              \* the tenants among them whose id is no UUID
    BTasks,             \* concurrent restore requests
    KeepDaily, KeepWeekly, DaysPerWeek,
    MaxDay, MaxArchive, MaxSecond,  \* bounds: days, archives ever, seconds
    NoRestore

ASSUME BackupsAssumption ==
    /\ Slugs \subseteq BTenants /\ {KeepDaily, KeepWeekly} \subseteq Nat
    /\ {DaysPerWeek, MaxDay} \subseteq Nat \ {0} /\ {MaxArchive, MaxSecond} \subseteq Nat

VARIABLES
    bday, bsec,     \* the date, and the second within it
    bdirs,          \* tenants with a directory of their own
    barch,          \* backups/: day, n (rank of the name within the day), whole, dbs
    bscript,        \* the running script: pc, the staged tenants, its archive
    bprune,         \* its pruning: the archives listed, those not classified yet, those to keep
    btrash,         \* _trash/<tid>-restored-<ts>: the archive it was copied from, 0 when half done
    btask,          \* restore requests
    brestored, bonce, btwice    \* history: restores acknowledged; tenants and seconds of one, of two restores

bvars == <<bday, bsec, bdirs, barch, bscript, bprune, btrash, btask, brestored, bonce, btwice>>
Idle == [pc |-> "idle", dbs |-> {}, todo |-> {}, out |-> <<0, 0>>]
NoPrune == [all |-> {}, left |-> {}, keep |-> {}, days |-> {}, weeks |-> {}, daily |-> 0, weekly |-> 0, today |-> 0]
BInit ==
    /\ bday = 1 /\ bsec = 0 /\ bdirs \in SUBSET BTenants /\ barch = {} /\ bscript = Idle /\ bprune = NoPrune
    /\ btrash = {} /\ btask = [r \in BTasks |-> NoRestore] /\ brestored = {} /\ bonce = {} /\ btwice = {}

(* A name is drust-<date>-<time>.  Undated ones (day 0) and operators'     *)
(* copies named by the date alone, which sort above the dated ones, occur. *)
OperatorCopy(d) ==
    /\ Cardinality(barch) < MaxArchive
    /\ \A a \in barch : ~(a.day = d /\ a.n > MaxArchive)
    /\ \E a \in barch : a.whole /\ barch' = barch \cup {[a EXCEPT !.day = d, !.n = MaxArchive + 1]}
    /\ UNCHANGED <<bday, bsec, bdirs, bscript, bprune, btrash, btask, brestored, bonce, btwice>>
(* The clock moves, and may jump. *)
ClockDay(d) == bday' = d /\ d # bday /\ bsec' = 0
               /\ UNCHANGED <<bdirs, barch, bscript, bprune, btrash, btask, brestored, bonce, btwice>>
ClockSecond == bsec < MaxSecond /\ bsec' = bsec + 1
               /\ UNCHANGED <<bday, bdirs, barch, bscript, bprune, btrash, btask, brestored, bonce, btwice>>
DirAppears(t) == bdirs' = (IF t \in bdirs THEN bdirs \ {t} ELSE bdirs \cup {t})
                 /\ UNCHANGED <<bday, bsec, barch, bscript, bprune, btrash, btask, brestored, bonce, btwice>>

----------------------------------------------------------------------------
(* deploy/drust-backup.sh: meta.sqlite first, then one database after the  *)
(* other, of the directories that are listed after it; one that has moved  *)
(* away since is skipped.                                                  *)
Ranks == {a.n : a \in {x \in barch : x.day = bday /\ x.n <= MaxArchive}}
NextRank == IF Ranks = {} THEN 1 ELSE Max(Ranks) + 1
StageMeta ==
    /\ bscript.pc = "idle" /\ Cardinality(barch) < MaxArchive /\ NextRank <= MaxArchive
    /\ bscript' = [pc |-> "list", dbs |-> {}, todo |-> {}, out |-> <<bday, NextRank>>]
    /\ UNCHANGED <<bday, bsec, bdirs, barch, bprune, btrash, btask, brestored, bonce, btwice>>
ListDirs ==
    /\ bscript.pc = "list" /\ bscript' = [bscript EXCEPT !.pc = "dbs", !.todo = bdirs]
    /\ UNCHANGED <<bday, bsec, bdirs, barch, bprune, btrash, btask, brestored, bonce, btwice>>
StageDb(t) ==
    /\ bscript.pc = "dbs" /\ t \in bscript.todo
    /\ bscript' = [bscript EXCEPT !.dbs = @ \cup ({t} \cap bdirs), !.todo = @ \ {t}]
    /\ UNCHANGED <<bday, bsec, bdirs, barch, bprune, btrash, btask, brestored, bonce, btwice>>
(* tar writes to the final name: the archive is there before it is whole,  *)
(* and stays when the script dies.                                         *)
TarBegin ==
    /\ bscript.pc = "dbs" /\ bscript.todo = {}
    /\ barch' = barch \cup {[day |-> bscript.out[1], n |-> bscript.out[2], whole |-> FALSE, dbs |-> bscript.dbs]}
    /\ bscript' = [bscript EXCEPT !.pc = "tar"]
    /\ UNCHANGED <<bday, bsec, bdirs, bprune, btrash, btask, brestored, bonce, btwice>>
Mine(a) == <<a.day, a.n>> = bscript.out
TarEnd ==
    /\ bscript.pc = "tar" /\ bscript' = [bscript EXCEPT !.pc = "prune"]
    /\ barch' = {IF Mine(a) THEN [a EXCEPT !.whole = TRUE] ELSE a : a \in barch}
    /\ UNCHANGED <<bday, bsec, bdirs, bprune, btrash, btask, brestored, bonce, btwice>>
ScriptDies == bscript # Idle /\ bscript' = Idle /\ bprune' = NoPrune
              /\ UNCHANGED <<bday, bsec, bdirs, barch, btrash, btask, brestored, bonce, btwice>>

Week(d) == (d - 1) \div DaysPerWeek
ByName(a, b) == a.day > b.day \/ (a.day = b.day /\ a.n > b.n)
First(a, set) == a \in set /\ \A b \in set : b = a \/ ByName(a, b)
(* prune_backups lists the archives and reads the date.  The script's own  *)
(* archive is kept first and counts as a daily point.                      *)
PruneBegin ==
    /\ bscript.pc = "prune" /\ bscript' = [bscript EXCEPT !.pc = "scan"]
    /\ bprune' = [all |-> barch, left |-> barch, keep |-> {a \in barch : Mine(a)}, days |-> {bscript.out[1]},
                  weeks |-> {Week(bscript.out[1])}, daily |-> 1, weekly |-> 0, today |-> bday]
    /\ UNCHANGED <<bday, bsec, bdirs, barch, btrash, btask, brestored, bonce, btwice>>
(* One archive after the other, by name: undated and future ones are kept, *)
(* then one a day, then one a week.                                        *)
KeepAlways(st, a) == a \in st.keep \/ a.day = 0 \/ a.day > st.today
KeepWeek(st, a) == Week(a.day) \notin st.weeks /\ st.weekly < KeepWeekly
FaultKeepDay(st, a) == st.daily < KeepDaily
KeepDay(st, a) == a.day \notin st.days /\ st.daily < KeepDaily
KeepStep(st, a) ==
    IF KeepAlways(st, a) THEN [st EXCEPT !.keep = @ \cup {a}]
    ELSE IF KeepDay(st, a)
         THEN [st EXCEPT !.keep = @ \cup {a}, !.days = @ \cup {a.day}, !.weeks = @ \cup {Week(a.day)}, !.daily = @ + 1]
    ELSE IF KeepWeek(st, a)
         THEN [st EXCEPT !.keep = @ \cup {a}, !.weeks = @ \cup {Week(a.day)}, !.weekly = @ + 1]
    ELSE st
PruneScan(a) ==
    /\ bscript.pc = "scan" /\ First(a, bprune.left)
    /\ bprune' = [KeepStep(bprune, a) EXCEPT !.left = @ \ {a}]
    /\ UNCHANGED <<bday, bsec, bdirs, barch, bscript, btrash, btask, brestored, bonce, btwice>>
(* Then rm, again one after the other. *)
Surplus == (bprune.all \ bprune.keep) \cap barch
PruneRm(a) ==
    /\ bscript.pc = "scan" /\ bprune.left = {} /\ First(a, Surplus) /\ barch' = barch \ {a}
    /\ UNCHANGED <<bday, bsec, bdirs, bscript, bprune, btrash, btask, brestored, bonce, btwice>>
PruneEnd ==
    /\ bscript.pc = "scan" /\ bprune.left = {} /\ Surplus = {} /\ bscript' = Idle /\ bprune' = NoPrune
    /\ UNCHANGED <<bday, bsec, bdirs, barch, btrash, btask, brestored, bonce, btwice>>

----------------------------------------------------------------------------
(* mgmt/backups.rs *)
ListPage == barch

(* restore_tenant: the checks; the destination is named after the second.  *)
IsUuidLike(t) == t \notin Slugs
DestDir(t) == <<t, bday, bsec>>
Restore(r, a, t) ==
    /\ btask[r] = NoRestore /\ a \in ListPage /\ IsUuidLike(t)
    /\ btask' = [btask EXCEPT ![r] = [pc |-> "mkdir", a |-> a, t |-> t, at |-> <<bday, bsec>>, dest |-> DestDir(t)]]
    /\ btwice' = btwice \cup ({<<t, bday, bsec>>} \cap bonce) /\ bonce' = bonce \cup {<<t, bday, bsec>>}
    /\ UNCHANGED <<bday, bsec, bdirs, barch, bscript, bprune, btrash, brestored>>
Dest(r) == btask[r].dest
In(d) == {x \in btrash : x.dir = d}
(* create_dir_all and File::open: the archive may have been pruned. *)
RestoreOpen(r) ==
    /\ btask[r] # NoRestore /\ btask[r].pc = "mkdir"
    /\ btrash' = IF In(Dest(r)) = {} THEN btrash \cup {[dir |-> Dest(r), of |-> {}]} ELSE btrash
    /\ LET found == {a \in barch : ByName(a, btask[r].a) = FALSE /\ ByName(btask[r].a, a) = FALSE}
       IN btask' = [btask EXCEPT ![r].pc = IF found = {} THEN "fail" ELSE "copy",
                                 ![r].a = IF found = {} THEN @ ELSE CHOOSE a \in found : TRUE]
    /\ UNCHANGED <<bday, bsec, bdirs, barch, bscript, bprune, brestored, bonce, btwice>>
(* The archive is read to its end: an archive that is not whole fails the  *)
(* copy after the database was written, or before.                         *)
RestoreCopy(r) ==
    LET q == btask[r] IN
    /\ q # NoRestore /\ q.pc = "copy"
    /\ \E wrote \in IF q.t \notin q.a.dbs THEN {FALSE} ELSE IF q.a.whole THEN {TRUE} ELSE BOOLEAN :
        /\ IF wrote /\ In(Dest(r)) # {}
           THEN btrash' = (btrash \ In(Dest(r))) \cup {[dir |-> Dest(r), of |-> {q.a}]}
           ELSE UNCHANGED btrash
        /\ btask' = [btask EXCEPT ![r].pc = IF wrote /\ q.a.whole /\ In(Dest(r)) # {} THEN "ack" ELSE "fail"]
    /\ UNCHANGED <<bday, bsec, bdirs, barch, bscript, bprune, brestored, bonce, btwice>>
RestoreAck(r) ==
    LET q == btask[r] IN
    /\ q # NoRestore /\ q.pc = "ack" /\ btask' = [btask EXCEPT ![r] = NoRestore]
    /\ brestored' = brestored \cup {[dest |-> q.dest, at |-> <<q.t, q.at[1], q.at[2]>>, a |-> q.a]}
    /\ UNCHANGED <<bday, bsec, bdirs, barch, bscript, bprune, btrash, bonce, btwice>>
(* remove_dir_all: the whole directory, whoever made it. *)
RestoreFail(r) ==
    LET q == btask[r] IN
    /\ q # NoRestore /\ q.pc = "fail" /\ btask' = [btask EXCEPT ![r] = NoRestore]
    /\ btrash' = btrash \ In(Dest(r))
    /\ UNCHANGED <<bday, bsec, bdirs, barch, bscript, bprune, brestored, bonce, btwice>>

BNext ==
    \/ \E d \in 0 .. MaxDay : OperatorCopy(d) \/ (d > 0 /\ ClockDay(d))
    \/ ClockSecond \/ StageMeta \/ ListDirs \/ TarBegin \/ TarEnd \/ ScriptDies \/ PruneBegin \/ PruneEnd
    \/ \E a \in barch : PruneScan(a) \/ PruneRm(a)
    \/ \E t \in BTenants : DirAppears(t) \/ StageDb(t)
    \/ \E r \in BTasks : RestoreOpen(r) \/ RestoreCopy(r) \/ RestoreAck(r) \/ RestoreFail(r)
                         \/ \E a \in barch, t \in BTenants : Restore(r, a, t)
BSpec == BInit /\ [][BNext]_bvars

----------------------------------------------------------------------------
(* Pruning keeps the recovery points, at every point of it and so also     *)
(* when it is cut short: each of the KeepDaily latest days with a whole    *)
(* archive has a whole one, whatever else was made on those days and       *)
(* however the clock moves, unless a cut-off archive shares the day and    *)
(* takes its place.                                                        *)
RecoveryPoints ==
    bscript.pc = "scan" =>
        LET past == {a \in bprune.all : a.day \in 1 .. bprune.today}
            days == {a.day : a \in past}
            own == bscript.out[1]
        IN \A d \in days : d = own \/ Cardinality({own} \cup {e \in days : e > d}) < KeepDaily =>
            \/ \E a \in past : a.day = d /\ ~a.whole
            \/ \E a \in barch : a.day = d /\ a.whole

(* A restore that was acknowledged has its copy under _trash, from the     *)
(* archive it was asked of, unless the same tenant was restored twice in   *)
(* one second: the two share a directory, and one may overwrite or remove  *)
(* what the other acknowledged.                                            *)
RestoredKept ==
    \A x \in brestored :
        \/ \E y \in btrash : y.dir = x.dest /\ y.of = {x.a}
        \/ x.at \in btwice
============================================================================
