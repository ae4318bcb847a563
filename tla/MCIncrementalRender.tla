------------------------ MODULE MCIncrementalRender ------------------------
(***************************************************************************)
(* Instances of IncrementalRender for TLC: the shots, slots and requests   *)
(* each run submits.                                                       *)
(***************************************************************************)
EXTENDS IncrementalRender, TLC

CONSTANTS s1, s2, a, b, p1, p2, m1, m2, d1, d2, t1, t2, w1, w2

Cfg(p, m, d) == [params |-> p, model |-> m, scheduler |-> d]

\* Shot s1 shows the lead, s2 the whole cast of the run; s2 may be authored.
Req(action, cfg, prompt, use, cast, pretrained) ==
    [action |-> action, config |-> cfg, prompt |-> prompt, shots |-> Shots,
     use |-> use, cast |-> cast,
     slotsOf |-> [s \in Shots |-> IF s = s1 THEN use \cap {a} ELSE use],
     start |-> {}, authored |-> {}, scope |-> {}, pretrained |-> pretrained,
     local |-> {}, offloaded |-> FALSE]

Base(action, p) ==
    Req(action, Cfg(p, m1, d1), t1, Slots, Slots, {})

\* One project, one job at a time: every action, two parameter sets, a scope, an
\* authored shot, a pretrained slot, an invalid scope and an off-GPU finish.
SerialRequests ==
    {Base("render", p1), Base("render", p2), Base("preview", p1),
     Base("finalize", p1), Base("train_lora", p1),
     [Base("regen_shot", p2) EXCEPT !.scope = {s1}],
     [Base("render", p1) EXCEPT !.start = {s2}, !.authored = {s2}],
     [Base("render", p1) EXCEPT !.pretrained = {a}],
     [Base("finalize", p1) EXCEPT !.offloaded = TRUE],
     [Base("finalize", p1) EXCEPT !.shots = {s1}, !.scope = {s2}]}

\* Two jobs of one project in flight at once: an off-GPU render and a preview
\* with other parameters that reuses the adapter, with whatever a third made, which
\* has a local copy of it.
SharedRequests ==
    {[Base("render", p1) EXCEPT !.offloaded = TRUE],
     [Base("preview", p2) EXCEPT !.pretrained = Slots, !.scope = {s1}],
     [Base("finalize", p1) EXCEPT !.offloaded = TRUE, !.scope = {s1},
                                   !.pretrained = Slots, !.local = Slots]}

\* One job at a time whose restore may go wrong in every way; a second look with
\* its own parameters, scheduler and prompt, a slot without a cast entry, a pretrained
\* slot beside a local one, an undeclared slot and an off-GPU finish.
FaultyRequests ==
    {Req("preview", Cfg(p2, m1, d2), t2, Slots, Slots, {}),
     [Base("render", p1) EXCEPT !.cast = {a}],
     [Base("preview", p1) EXCEPT !.pretrained = {a, b}, !.local = {b}],
     [Base("finalize", p1) EXCEPT !.offloaded = TRUE],
     [Base("finalize", p1) EXCEPT !.use = {}]}

\* Previews of one storyboard that differ in the configuration or the prompt.
PreviewRequests ==
    {Req("preview", Cfg(p, m, d), t, Slots, Slots, {}) :
        p \in Params, m \in Models, d \in Schedulers, t \in Prompts}

Swap == Permutations(Workers)
=============================================================================
