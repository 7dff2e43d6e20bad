----------------------------- MODULE InitPromotion -----------------------------
(***************************************************************************)
(* `git slop init` takes the state of the first scans along                  *)
(* (src/cli/init.rs): the latest report that `find` published below `.git`   *)
(* while the repository was not adopted moves into `.slop`, file by file and *)
(* without the scan lock, while further scans publish and people change the  *)
(* worktree and the branch.                                                  *)
(*                                                                           *)
(* A publication changes all files of a latest report at once here: its own  *)
(* windows are those of ReportStore.  Runs and the cache move the same way.  *)
(***************************************************************************)
EXTENDS Naturals

CONSTANTS MaxRuns,       \* scans
          MaxCheckouts,  \* changes of branch that add or remove the adoption files
          None

Latest == {"report.json", "summary.md"}
Adoption == {"none", "partial", "ready"}

VARIABLES private,   \* the run each file of `.git/.../ephemeral/latest` is of
          durable,   \* the run each file of `.slop/latest` is of
          adoption,  \* state of `.slop/config.yaml` and `.slop/.gitignore`
          runs,      \* scans so far
          current,   \* runs whose report describes the worktree
          init,      \* the running `init`
          switches,  \* changes of branch so far
          torn       \* `.slop/latest` was published into, or half there, during a promotion

vars == <<private, durable, adoption, runs, current, init, switches, torn>>

Absent == [f \in Latest |-> None]
NoInit == [at |-> "idle", ready |-> FALSE, eligible |-> FALSE, todo |-> {}, file |-> None]

Init == /\ private = Absent /\ durable = Absent /\ adoption = "none"
        /\ runs = 0 /\ current = {} /\ init = NoInit /\ switches = 0 /\ torn = FALSE

Promoting == init.at \in {"move", "rename"}

(***************************************************************************)
(* Scans and people.                                                        *)
(***************************************************************************)
Scan == runs < MaxRuns /\ runs' = runs + 1 /\ current' = current \cup {runs + 1}
OfRun(r) == [f \in Latest |-> r]

FindPrivate == /\ Scan /\ private' = OfRun(runs + 1)
               /\ torn' = (torn \/ Promoting)
               /\ UNCHANGED <<durable, adoption, init, switches>>

FindDurable == /\ Scan /\ durable' = OfRun(runs + 1)
               /\ torn' = Promoting
               /\ UNCHANGED <<private, adoption, init, switches>>

Edit == /\ current # {} /\ current' = {}
        /\ UNCHANGED <<private, durable, adoption, runs, init, switches, torn>>

(* The state directories are ignored by git and stay.                       *)
Checkout == /\ switches < MaxCheckouts /\ switches' = switches + 1
            /\ adoption' \in Adoption \ {adoption} /\ current' = {}
            /\ UNCHANGED <<private, durable, runs, init, torn>>

(***************************************************************************)
(* `run_init`.                                                              *)
(***************************************************************************)
Quiet == UNCHANGED <<private, durable, runs, current, switches>>

(* `first_run_state_is_current`, before the adoption files are written.     *)
Begin == /\ init.at = "idle"
         /\ init' = [NoInit EXCEPT !.at = "configure", !.ready = adoption = "ready",
                                   !.eligible = adoption # "ready"
                                                /\ private["report.json"] \in current]
         /\ Quiet /\ UNCHANGED <<adoption, torn>>

(* An ignore file that lacks entries is kept unless --repair or --force.    *)
Configure == /\ init.at = "configure"
             /\ adoption' \in IF adoption = "partial" THEN {"partial", "ready"} ELSE {"ready"}
             /\ init' = IF init.ready THEN NoInit ELSE [init EXCEPT !.at = "gate"]
             /\ Quiet /\ UNCHANGED torn

Gate == /\ init.at = "gate"
        /\ IF private["report.json"] = None \/ ~ init.eligible
           THEN init' = NoInit /\ UNCHANGED torn
           ELSE /\ init' = [init EXCEPT !.at = "move", !.todo = Latest]
                /\ torn' = (torn \/ \E f, g \in Latest : durable[f] = None /\ durable[g] # None)
        /\ Quiet /\ UNCHANGED adoption

(* `move_state_tree`: a file that is there already is retained.             *)
Retained(f) == durable[f] # None

LookAt(f) ==
    /\ init.at = "move" /\ f \in init.todo
    /\ init' = IF private[f] = None \/ Retained(f)
               THEN [init EXCEPT !.todo = @ \ {f}]
               ELSE [init EXCEPT !.at = "rename", !.file = f]
    /\ Quiet /\ UNCHANGED <<adoption, torn>>

Rename == /\ init.at = "rename"
          /\ durable' = [durable EXCEPT ![init.file] = private[init.file]]
          /\ private' = [private EXCEPT ![init.file] = None]
          /\ init' = [init EXCEPT !.at = "move", !.todo = @ \ {init.file}, !.file = None]
          /\ UNCHANGED <<adoption, runs, current, switches, torn>>

Finish == /\ init.at = "move" /\ init.todo = {} /\ init' = NoInit
          /\ Quiet /\ UNCHANGED <<adoption, torn>>

Crash == /\ init.at # "idle" /\ init' = NoInit
         /\ Quiet /\ UNCHANGED <<adoption, torn>>

Next == \/ FindPrivate \/ FindDurable \/ Edit \/ Checkout
        \/ Begin \/ Configure \/ Gate \/ (\E f \in Latest : LookAt(f)) \/ Rename \/ Finish \/ Crash
Spec == Init /\ [][Next]_vars

(***************************************************************************)
(* Properties.                                                              *)
(***************************************************************************)
TypeOK == /\ {private, durable} \subseteq [Latest -> 1 .. MaxRuns \cup {None}]
          /\ adoption \in Adoption /\ runs \in 0 .. MaxRuns /\ current \subseteq 1 .. runs
          /\ init.at \in {"idle", "configure", "gate", "move", "rename"} /\ init.todo \subseteq Latest
          /\ switches \in 0 .. MaxCheckouts /\ torn \in BOOLEAN

(* The files of `.slop/latest` are of one run, through crashes, changes of   *)
(* branch and repeated promotions, unless a scan published while the files   *)
(* moved, or files moved beside those an interrupted promotion had left.     *)
LatestOfOneRun == torn \/ \A f, g \in Latest :
                     durable[f] = durable[g] \/ durable[f] = None \/ durable[g] = None
===============================================================================
