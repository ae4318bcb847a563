---------------------------- MODULE LoraTraining ----------------------------
(***************************************************************************)
(* The training loop of lora_train.train_slot for one character: gradient  *)
(* accumulation, intermediate checkpoints and the final adapter.           *)
(*                                                                         *)
(* Gradients, losses and latents are abstracted to how many of them the    *)
(* weights have absorbed.  The progress callback is wrapped in a           *)
(* try/except and changes nothing here.                                    *)
(***************************************************************************)
EXTENDS Naturals, FiniteSets

CONSTANTS
    MaxSteps,         \* upper bounds of the knobs: max_steps,
    MaxAccumulation,  \*   gradient_accumulation_steps,
    MaxSaveEvery      \*   save_every

ASSUME KnobsAssumption ==
    MaxSteps \in Nat \ {0} /\ MaxAccumulation \in Nat \ {0} /\ MaxSaveEvery \in Nat

VARIABLES
    knobs,       \* the LoraTrainConfig of the project's jobs, fixed
    training,    \* whether the loop runs
    step,        \* steps taken
    pending,     \* gradients accumulated since the optimizer's last step
    updates,     \* optimizer steps taken
    checkpoints  \* checkpoint-<step> directories: their step, their updates

trainer == <<training, step, pending, updates, checkpoints>>

\* _lora_from_dict clamps max_steps and the accumulation to at least 1; a
\* save_every of 0 means no checkpoints.
Knobs == [steps: 1..MaxSteps, accumulation: 1..MaxAccumulation,
          saveEvery: 0..MaxSaveEvery]

Checkpoint == [step: Nat, updates: Nat]

TrainerTypeOK ==
    /\ knobs \in Knobs
    /\ training \in BOOLEAN
    /\ step \in 0..knobs.steps /\ pending \in Nat /\ updates \in Nat
    /\ checkpoints \in SUBSET Checkpoint

TrainerInit ==
    /\ knobs \in Knobs
    /\ training = FALSE
    /\ step = 0 /\ pending = 0 /\ updates = 0 /\ checkpoints = {}

-----------------------------------------------------------------------------

\* A fresh LoRA on a frozen base, in a directory of the job's own.
BeginTraining ==
    /\ ~training
    /\ training' = TRUE
    /\ UNCHANGED <<knobs, step, pending, updates, checkpoints>>

\* Seeded bug: steps are counted from 0.
SteppedEarly == step % knobs.accumulation = 0

OptimizerSteps == (step + 1) % knobs.accumulation = 0

\* Seeded bug: the last step leaves a checkpoint too.
CheckpointsToTheEnd == knobs.saveEvery # 0 /\ (step + 1) % knobs.saveEvery = 0

\* Not after the last step: that adapter is the final one.
Checkpoints ==
    /\ knobs.saveEvery # 0
    /\ (step + 1) % knobs.saveEvery = 0
    /\ step + 1 < knobs.steps

\* Seeded bug: one turn too many.
OneTurnMore == step <= knobs.steps

StepsLeft == step < knobs.steps

\* One turn of the loop: a gradient, an update when the window is full, a
\* checkpoint when one is due.
TrainStep ==
    /\ training /\ StepsLeft
    /\ step'    = step + 1
    /\ pending' = IF OptimizerSteps THEN 0 ELSE pending + 1
    /\ updates' = IF OptimizerSteps THEN updates + 1 ELSE updates
    /\ checkpoints' = IF Checkpoints
                      THEN checkpoints \cup {[step |-> step', updates |-> updates']}
                      ELSE checkpoints
    /\ UNCHANGED <<knobs, training>>

\* The final adapter is saved: gradients of an unfinished window are dropped.
Trained == training /\ step = knobs.steps

\* The loop's variables and its directory go with the call.
StopTraining ==
    /\ training' = FALSE
    /\ step' = 0 /\ pending' = 0 /\ updates' = 0 /\ checkpoints' = {}
    /\ UNCHANGED knobs

-----------------------------------------------------------------------------

\* No gradient is lost or counted twice before the end: each step is in an update
\* or waits in a window that is not full.
GradientsAccounted ==
    /\ step = updates * knobs.accumulation + pending
    /\ pending < knobs.accumulation

\* A checkpoint is of an earlier step than the last, one that save_every divides,
\* and holds the updates of all full windows up to it.
CheckpointsAsDue ==
    \A c \in checkpoints :
        /\ 0 < c.step /\ c.step < knobs.steps /\ c.step <= step
        /\ knobs.saveEvery # 0 /\ c.step % knobs.saveEvery = 0
        /\ c.updates * knobs.accumulation <= c.step
        /\ c.step < (c.updates + 1) * knobs.accumulation

\* What train_lora's one counter has to get right: every gradient reaches one update,
\* and what is saved on the way has the updates of its step.
UpdatesAccounted == GradientsAccounted /\ CheckpointsAsDue
=============================================================================
