----------------------------- MODULE RayPromise -----------------------------
(***************************************************************************)
(* What a voxel traversal unit and its memory promise whoever gives them   *)
(* rays: a reset starts the ray on the pins, the answer comes between      *)
(* Earliest and Latest edges after the last reset, it is the answer for    *)
(* that ray, and it stays until the next reset.                            *)
(***************************************************************************)
EXTENDS Naturals

CONSTANTS
    Earliest, Latest,   \* first and last edge an answer can come with
    NoAnswer,           \* what the outputs show while there is no answer
    Answer(_)           \* the answer for a ray

VARIABLES
    ray,        \* the ray on the pins
    age,        \* edges since the last reset, up to Latest
    answered,
    answer

promisevars == <<age, answered, answer>>

PromiseInit == age = 0 /\ answered = FALSE /\ answer = NoAnswer

Start == age' = 0 /\ answered' = FALSE /\ answer' = NoAnswer

Older == age' = IF age < Latest THEN age + 1 ELSE age

Work == /\ ~answered
        /\ age + 1 < Latest
        /\ Older
        /\ UNCHANGED <<answered, answer>>

Deliver == /\ ~answered
           /\ age + 1 >= Earliest
           /\ Older
           /\ answered' = TRUE
           /\ answer' = Answer(ray)

Hold == answered /\ Older /\ UNCHANGED <<answered, answer>>

\* An edge without reset.
Tick == Work \/ Deliver \/ Hold

\* The ray may change on the pins only at an edge that is followed by a reset
\* or before the unit has finished with it: that is the driver's business.
Promise == PromiseInit /\ [][Start \/ Tick]_promisevars

=============================================================================
