---------------------------- MODULE TrainingRuns ----------------------------
(***************************************************************************)
(* The training of the two variants of the tagger: a driver runs one after *)
(* the other, each in a process that keeps what it has done in a directory *)
(* of its own, and a last script decides from what is there.  A process    *)
(* may be killed at any step, a driver without its child, and an exception *)
(* may end a training.                                                     *)
(*                                                                         *)
(* Abstraction.  Weights are named by the epoch that they are of, a score  *)
(* is a number.  The emptiness of a directory and the first file in it are *)
(* one step, so that no two trainings of a variant begin together.         *)
(* Epochs, F1s, Scores, MaxFaults and MaxDrivers are bounds.               *)
(***************************************************************************)
EXTENDS Naturals, Sequences, FiniteSets

CONSTANTS
    Epochs,   \* what --epochs may be
    F1s, Scores, \* what an epoch and a test may show
    Enough,   \* the score that the gates ask for
    None, MaxFaults, MaxDrivers

VARIABLES
    kind,     \* the experiment: "v1" or "v2"
    out,      \* what is in the directory of a variant
    train,    \* its process
    driver, file,     \* the driver, and its state file
    judge, decision,  \* finalize_clean_v2
    faults, drivers

vars == <<kind, out, train, driver, file, judge, decision, faults, drivers>>

Variants == {"first_subword", "bio_aware"}
Order    == <<"first_subword", "bio_aware">>

Empty    == [state |-> None, done |-> 0, best |-> 0, history |-> <<>>, model |-> None, metrics |-> None]
NoTrain  == [step |-> None, epochs |-> 0, epoch |-> 0, best |-> 0, history |-> <<>>, code |-> 0]
NoDriver == [step |-> None, n |-> 1, epochs |-> 0, completed |-> <<>>]
NoFile   == [state |-> None, completed |-> <<>>, epochs |-> 0]

Init ==
    /\ kind \in {"v1", "v2"}
    /\ out = [v \in Variants |-> Empty] /\ train = [v \in Variants |-> NoTrain]
    /\ driver = NoDriver /\ file = NoFile /\ judge = None /\ decision = None
    /\ faults = 0 /\ drivers = 0

-----------------------------------------------------------------------------
(* bert_dnrti_clean_v1.train *)

At(v, step) == train[v].step = step

Go(v, step) == train' = [train EXCEPT ![v].step = step]

OthersOfTraining == UNCHANGED <<kind, driver, file, judge, decision, faults, drivers>>

\* A directory with anything in it is refused: without error when it is done.
Begin(v, epochs) ==
    IF out[v] = Empty
    THEN /\ out' = [out EXCEPT ![v].state = "starting"]
         /\ train' = [train EXCEPT ![v] = [NoTrain EXCEPT !.step = "load", !.epochs = epochs]]
    ELSE UNCHANGED <<out, train>>

Load(v) ==
    /\ At(v, "load") /\ out' = [out EXCEPT ![v].state = "training"] /\ Go(v, "epoch")
    /\ OthersOfTraining

\* The first is above -1.
IsBest(v, f1) == train[v].best = 0 \/ f1 > train[v].history[train[v].best]

\* save_model_bundle begins by removing what is there.
Epoch(v, f1) ==
    /\ At(v, "epoch")
    /\ train' = [train EXCEPT ![v].epoch = @ + 1, ![v].history = Append(@, f1),
                              ![v].best = IF IsBest(v, f1) THEN train[v].epoch + 1 ELSE @,
                              ![v].step = IF IsBest(v, f1) THEN "save" ELSE "record"]
    /\ out' = [out EXCEPT ![v].model = IF IsBest(v, f1) THEN None ELSE @]
    /\ OthersOfTraining

SaveBest(v) ==
    /\ At(v, "save") /\ out' = [out EXCEPT ![v].model = train[v].epoch] /\ Go(v, "record")
    /\ OthersOfTraining

Record(v) ==
    /\ At(v, "record") /\ Go(v, IF train[v].epoch < train[v].epochs THEN "epoch" ELSE "test")
    /\ out' = [out EXCEPT ![v].done = train[v].epoch, ![v].best = train[v].best,
                          ![v].history = train[v].history]
    /\ OthersOfTraining

\* What is tested is what is read back.
Test(v, score) ==
    /\ At(v, "test") /\ Go(v, "complete")
    /\ out' = [out EXCEPT ![v].metrics = [of |-> out[v].model, score |-> score]]
    /\ OthersOfTraining

Completed(v) ==
    /\ At(v, "complete") /\ train' = [train EXCEPT ![v] = NoTrain]
    /\ out' = [out EXCEPT ![v].state = "completed"]
    /\ OthersOfTraining

Exited(v) == train' = [train EXCEPT ![v] = [NoTrain EXCEPT !.code = 1]]

Fail(v) ==
    /\ ~At(v, None) /\ faults < MaxFaults /\ faults' = faults + 1 /\ Exited(v)
    /\ out' = [out EXCEPT ![v].state = "failed"]
    /\ UNCHANGED <<kind, driver, file, judge, decision, drivers>>

Kill(v) ==
    /\ ~At(v, None) /\ faults < MaxFaults /\ faults' = faults + 1 /\ Exited(v)
    /\ UNCHANGED <<kind, out, driver, file, judge, decision, drivers>>

-----------------------------------------------------------------------------
(* run_clean_v1_driver, run_clean_v2_driver *)

OthersOfDriver == UNCHANGED <<kind, judge, decision, faults>>

HasFiles(v) == out[v].state # None /\ out[v].metrics # None /\ out[v].model # None

\* valid_completion, complete.
Complete(v, epochs) == HasFiles(v) /\ out[v].state = "completed" /\ out[v].done = epochs

\* The number of epochs is a parameter of the second experiment only.
StartDriver(epochs) ==
    /\ driver.step = None /\ drivers < MaxDrivers /\ drivers' = drivers + 1
    /\ kind = "v1" => \A e \in Epochs : e <= epochs
    /\ driver' = [NoDriver EXCEPT !.step = "look", !.epochs = epochs]
    /\ file' = [state |-> "running", completed |-> <<>>, epochs |-> epochs]
    /\ UNCHANGED <<out, train>> /\ OthersOfDriver

Took == Append(driver.completed, Order[driver.n])

\* A variant that is complete is gone past; the first driver writes so.
Pass ==
    /\ driver.step = "look" /\ driver.n <= 2 /\ Complete(Order[driver.n], driver.epochs)
    /\ driver' = [driver EXCEPT !.n = @ + 1, !.completed = Took]
    /\ file' = IF kind = "v1" THEN [file EXCEPT !.completed = Took] ELSE file
    /\ UNCHANGED <<out, train, drivers>> /\ OthersOfDriver

RunTraining ==
    /\ driver.step = "look" /\ driver.n <= 2 /\ ~Complete(Order[driver.n], driver.epochs)
    /\ Begin(Order[driver.n], driver.epochs)
    /\ driver' = [driver EXCEPT !.step = IF out[Order[driver.n]] = Empty THEN "wait"
                                         ELSE IF out[Order[driver.n]].state = "completed" THEN "check" ELSE "fail"]
    /\ UNCHANGED <<file, drivers>> /\ OthersOfDriver

Returned ==
    /\ driver.step = "wait" /\ At(Order[driver.n], None)
    /\ driver' = [driver EXCEPT !.step = IF train[Order[driver.n]].code = 0 THEN "check" ELSE "fail"]
    /\ UNCHANGED <<out, train, file, drivers>> /\ OthersOfDriver

Check ==
    /\ driver.step = "check"
    /\ IF Complete(Order[driver.n], driver.epochs)
       THEN /\ driver' = [driver EXCEPT !.step = "look", !.n = @ + 1, !.completed = Took]
            /\ file' = [file EXCEPT !.completed = Took]
       ELSE driver' = [driver EXCEPT !.step = "fail"] /\ UNCHANGED file
    /\ UNCHANGED <<out, train, drivers>> /\ OthersOfDriver

EndDriver ==
    /\ driver.step = "fail" \/ (driver.step = "look" /\ driver.n > 2)
    /\ driver' = NoDriver
    /\ file' = [file EXCEPT !.state = IF driver.step = "fail" THEN "failed" ELSE "completed",
                            !.completed = driver.completed]
    /\ UNCHANGED <<out, train, drivers>> /\ OthersOfDriver

KillDriver ==
    /\ driver.step # None /\ faults < MaxFaults /\ faults' = faults + 1 /\ driver' = NoDriver
    /\ UNCHANGED <<kind, out, train, file, judge, decision, drivers>>

-----------------------------------------------------------------------------
(* finalize_clean_v2 *)

OthersOfJudge == UNCHANGED <<kind, out, train, driver, file, faults, drivers>>

\* What is missing is an error.
Judge ==
    /\ kind = "v2" /\ judge = None /\ decision = None /\ HasFiles(Order[1])
    /\ judge' = out[Order[1]] /\ UNCHANGED decision /\ OthersOfJudge

Eligible(first, second) ==
    /\ first.state = "completed" /\ second.state = "completed"
    /\ first.metrics.score >= Enough /\ second.metrics.score >= Enough
    /\ first.metrics.score > second.metrics.score

Decide(sound) ==
    /\ judge # None
    /\ decision' = IF HasFiles(Order[2])
                   THEN [eligible |-> sound /\ Eligible(judge, out[Order[2]]), sound |-> sound,
                         of |-> <<judge.model, out[Order[2]].model>>]
                   ELSE None
    /\ judge' = None /\ OthersOfJudge

-----------------------------------------------------------------------------

Next ==
    \/ \E v \in Variants :
          \/ Load(v) \/ SaveBest(v) \/ Record(v) \/ Completed(v) \/ Fail(v) \/ Kill(v)
          \/ \E n \in F1s : Epoch(v, n)
          \/ \E n \in Scores : Test(v, n)
    \/ \E e \in Epochs : StartDriver(e)
    \/ Pass \/ RunTraining \/ Returned \/ Check \/ EndDriver \/ KillDriver
    \/ Judge \/ \E sound \in BOOLEAN : Decide(sound)

Spec == Init /\ [][Next]_vars

-----------------------------------------------------------------------------
(* Properties. *)

Upto == 0..(CHOOSE e \in Epochs : \A f \in Epochs : f <= e)

TypeOK ==
    /\ kind \in {"v1", "v2"} /\ faults \in 0..MaxFaults /\ drivers \in 0..MaxDrivers
    /\ \A v \in Variants :
          /\ out[v].state \in {None, "starting", "training", "failed", "completed"}
          /\ out[v].done \in Upto /\ out[v].best \in Upto /\ out[v].history \in Seq(F1s)
          /\ train[v].step \in {None, "load", "epoch", "save", "record", "test", "complete"}
    /\ driver.step \in {None, "look", "wait", "check", "fail"} /\ driver.n \in 1..3
    /\ file.state \in {None, "running", "failed", "completed"}

(***************************************************************************)
(* A completed training offers the weights of the first of its best        *)
(* epochs, and its metrics are of these weights, whatever was killed and   *)
(* started again.                                                          *)
(***************************************************************************)
BestIsOffered ==
    \A v \in Variants : out[v].state = "completed" =>
        LET h == out[v].history IN
        /\ out[v].model = out[v].best /\ out[v].metrics.of = out[v].model /\ Len(h) = out[v].done
        /\ out[v].best \in DOMAIN h
        /\ \A n \in DOMAIN h : IF n < out[v].best THEN h[n] < h[out[v].best] ELSE h[n] <= h[out[v].best]

\* A driver that has completed leaves two trainings of its number of epochs.
DriverIsTrue ==
    file.state = "completed" =>
        \A v \in Variants : out[v].state = "completed" /\ Len(out[v].history) = file.epochs

(***************************************************************************)
(* Weights are said to be eligible only when the data set was sound, both  *)
(* of the trainings are complete, and the weights are the ones there.      *)
(***************************************************************************)
EligibleIsTrue ==
    decision # None /\ decision.eligible =>
        /\ decision.sound
        /\ \A n \in {1, 2} : out[Order[n]].state = "completed" /\ decision.of[n] = out[Order[n]].best
        /\ out[Order[1]].metrics.score > out[Order[2]].metrics.score

TrainingHolds == BestIsOffered /\ DriverIsTrue /\ EligibleIsTrue
=============================================================================
