---------------------------- MODULE FrameDelivery ----------------------------
(***************************************************************************)
(* What a desktop stream promises: the frames a cast sends are drawn in    *)
(* their order, each at most once, without a gap as long as every image    *)
(* could be decoded; and only a frame that was drawn is acknowledged, in   *)
(* that order too.                                                         *)
(***************************************************************************)
EXTENDS Naturals

VARIABLES
    cast,           \* frames the screen caster has sent
    drawn,          \* frames the page has drawn
    acknowledged,   \* the last one the caster knows to be drawn
    spoilt          \* an image could not be decoded

vars == <<cast, drawn, acknowledged, spoilt>>

Init == cast = 0 /\ drawn = {} /\ acknowledged = 0 /\ spoilt = FALSE

Cast ==
    /\ cast' = cast + 1
    /\ UNCHANGED <<drawn, acknowledged, spoilt>>

(* A later frame than all that were drawn; the next one unless spoilt. *)
Draw(f) ==
    /\ f <= cast
    /\ \A g \in drawn : g < f
    /\ ~spoilt => drawn = 1 .. f - 1
    /\ drawn' = drawn \cup {f}
    /\ UNCHANGED <<cast, acknowledged, spoilt>>

Acknowledge(f) ==
    /\ f \in drawn /\ acknowledged < f
    /\ acknowledged' = f
    /\ UNCHANGED <<cast, drawn, spoilt>>

Spoil ==
    /\ spoilt' = TRUE
    /\ UNCHANGED <<cast, drawn, acknowledged>>

Next == \/ Cast \/ Spoil
        \/ \E f \in 1 .. cast : Draw(f) \/ Acknowledge(f)

Spec == Init /\ [][Next]_vars
=============================================================================
