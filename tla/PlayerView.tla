----------------------------- MODULE PlayerView -----------------------------
(***************************************************************************)
(* What the view shows of one character (player_view.cpp).  Its state is    *)
(* its own: it is not copied from the game but follows what it sees of the  *)
(* game once a frame, one change of state at a time.  Between two frames    *)
(* the game may tick, roll back and replay, so the next sight may be any.   *)
(* Drawables, effects, positions and the direction it faces are left out.   *)
(***************************************************************************)
EXTENDS Naturals

CONSTANT Settle   \* updates of an unchanged game after which the view must show it

\* From a stomp over FALL, IDLE and WALK to WALK_BACK the view takes four.
ASSUME ViewAssumption == Settle \in Nat /\ Settle >= 4

VARIABLES sight,       \* what the view reads of the character and its input
          drawn,       \* PlayerRenderData: state, isRespawning, and the jet pack's sound
          viewLoaded,  \* the drawables of the view exist
          still        \* history: updates since the sight changed, up to Settle

viewVars == <<sight, drawn, viewLoaded, still>>

OnTheGround == {"IDLE", "WALK", "WALK_BACK", "SHOOT"}
InTheAir == {"JET", "JETBURST", "FALL"}
PlayerRenderState == OnTheGround \cup InTheAir \cup {"DASHPREP", "DASH"}

\* walk and up place moveDirX and moveDirY among the thresholds of the code: below, at or
\* above the dead zone; below ReactorThreshold, between, above JetBurstThreshold.  aim is
\* the sign of targetDirX as seen from moveDirX.
Readings == [away |-> BOOLEAN,                       \* IsRespawning()
             grounded |-> BOOLEAN,
             dash |-> {"none", "prep", "dash"},      \* never both (OneMove of Stomp)
             jumping |-> BOOLEAN,                    \* jumpTimer runs
             walk |-> {"below", "at", "above"},
             aim |-> {"behind", "across", "ahead"},
             up |-> {"below", "between", "above"},
             shooting |-> BOOLEAN]                   \* aims and does not reload

\* A tick ends the dash of a character on the ground (player_character.cpp:407).
Possible(s) == /\ s.dash = "dash" => ~s.grounded
               /\ s.walk = "below" => s.aim = "across"   \* nobody looks at aim

ViewInit == /\ sight = [away |-> TRUE, grounded |-> FALSE, dash |-> "none", jumping |-> FALSE,
                        walk |-> "below", aim |-> "across", up |-> "below", shooting |-> FALSE]
            /\ drawn = [state |-> "IDLE", isRespawning |-> TRUE, jetSound |-> FALSE]
            /\ viewLoaded = FALSE
            /\ still = 0

\* The game goes on or is rolled back; a sight that differs in more comes of several changes.
GameMoves == /\ \E field \in DOMAIN Readings : \E reading \in Readings[field] :
                   /\ reading # sight[field]
                   /\ sight' = [sight EXCEPT ![field] = reading]
             /\ Possible(sight')
             /\ still' = 0
             /\ UNCHANGED <<drawn, viewLoaded>>

\* Load, once the skeletons are there.
ViewLoads == /\ ~viewLoaded
             /\ viewLoaded' = TRUE
             /\ UNCHANGED <<sight, drawn, still>>

-----------------------------------------------------------------------------
(* Update of one player. *)

Grounds(s, state) == IF s.grounded THEN state ELSE "FALL"

\* The state after each state.  Where the code switches twice the later one stays.
Follows(s) ==
    [IDLE |-> Grounds(s, IF s.walk = "above" THEN "WALK" ELSE IF s.shooting THEN "SHOOT" ELSE "IDLE"),
     WALK |-> IF s.walk = "below" THEN "IDLE"
              ELSE IF s.aim = "behind" THEN "WALK_BACK" ELSE Grounds(s, "WALK"),
     WALK_BACK |-> IF s.walk = "below" THEN "IDLE"
                   ELSE IF s.aim = "ahead" THEN "WALK" ELSE Grounds(s, "WALK_BACK"),
     FALL |-> IF s.grounded THEN "IDLE"
              ELSE IF s.up # "above" THEN "FALL" ELSE IF s.jumping THEN "JETBURST" ELSE "JET",
     SHOOT |-> IF s.walk = "above" THEN "WALK" ELSE IF s.shooting THEN "SHOOT" ELSE "IDLE",
     JET |-> IF s.jumping THEN "JETBURST"
             ELSE IF s.up = "below" THEN "FALL" ELSE IF s.grounded THEN "IDLE" ELSE "JET",
     JETBURST |-> IF s.jumping THEN "JETBURST" ELSE IF s.up = "above" THEN "JET" ELSE "FALL",
     DASHPREP |-> IF s.dash = "prep" THEN "DASHPREP" ELSE "FALL",
     DASH |-> IF s.dash = "dash" THEN "DASH" ELSE "FALL"]

\* Mutant: a stomp is shown from the air only.
Interrupted_FromTheAir(s, state) == IF state \in OnTheGround THEN state
    ELSE IF s.dash = "prep" THEN "DASHPREP" ELSE IF s.dash = "dash" THEN "DASH" ELSE state

\* A stomp interrupts whatever is shown.
Interrupted(s, state) == IF s.dash = "prep" THEN "DASHPREP" ELSE IF s.dash = "dash" THEN "DASH" ELSE state

\* Mutant: the end of a burst forgets the sound.
Heard_NotAfterBurst(before, state, sound) ==
    CASE before = "FALL" /\ state = "JET" -> TRUE
      [] before = "JET" /\ state # "JET" -> FALSE
      [] OTHER -> sound

\* The sound fades in where FALL or JETBURST switches to JET and out where JET switches to
\* something else.  A stomp, or a way out of the game, that takes the view out of JET
\* before leaves the sound as it is.
Heard(before, state, sound) ==
    CASE before \in {"FALL", "JETBURST"} /\ state = "JET" -> TRUE
      [] before = "JET" /\ state # "JET" -> FALSE
      [] OTHER -> sound

Shows(s, d) ==
    LET before == Interrupted(s, d.state)
        after == Follows(s)[before]
    IN [d EXCEPT !.state = after, !.jetSound = Heard(before, after, @)]

\* Mutant: the view forgets that the character went out.
Updated_KeepsPlaying(s, d) ==
    IF d.isRespawning THEN [d EXCEPT !.isRespawning = s.away]
    ELSE IF s.away THEN [d EXCEPT !.state = "IDLE"]
    ELSE Shows(s, d)

Updated(s, d) ==
    IF d.isRespawning THEN [d EXCEPT !.isRespawning = s.away]
    ELSE IF s.away THEN [d EXCEPT !.isRespawning = TRUE, !.state = "IDLE"]
    ELSE Shows(s, d)

ViewUpdates == /\ viewLoaded
               /\ drawn' = Updated(sight, drawn)
               /\ still' = IF still = Settle THEN still ELSE still + 1
               /\ UNCHANGED <<sight, viewLoaded>>

ViewNext == GameMoves \/ ViewLoads \/ ViewUpdates

ViewSpec == ViewInit /\ [][ViewNext]_viewVars

-----------------------------------------------------------------------------
ViewTypeOK == /\ DOMAIN sight = DOMAIN Readings
              /\ \A field \in DOMAIN Readings : sight[field] \in Readings[field]
              /\ drawn \in [state : PlayerRenderState, isRespawning : BOOLEAN, jetSound : BOOLEAN]
              /\ viewLoaded \in BOOLEAN /\ still \in 0..Settle

\* A character that shoots and stands still when it leaves the ground is shown shooting,
\* not falling: SHOOT is the one state of the ground that never looks at the ground.
Suits(state, s) ==
    CASE s.dash = "prep" -> state = "DASHPREP"
      [] s.dash = "dash" -> state = "DASH"
      [] s.dash = "none" /\ s.grounded -> state \in OnTheGround \/ (state = "JETBURST" /\ s.jumping)
      [] s.dash = "none" /\ ~s.grounded -> \/ state \in InTheAir
                                           \/ state = "SHOOT" /\ s.shooting /\ s.walk # "above"

\* Whatever the game does to a character, by ticking or by rolling back, the view shows it
\* after a few frames in which it does nothing else, and stops changing: no two states
\* take turns (player_view.cpp:167-367).
ViewSettles ==
    still = Settle => /\ drawn.isRespawning = sight.away
                      /\ Updated(sight, drawn) = drawn
                      /\ ~sight.away => Suits(drawn.state, sight)

\* Who is seen flying is heard flying (player_view.cpp:256, 323, 337).
JetHeard == drawn.state = "JET" => drawn.jetSound

ViewSound == ViewSettles /\ JetHeard

\* The code does not keep it: the sound of a jet pack ends with the flight.
SilentAfterwards == still = Settle /\ drawn.jetSound => drawn.state = "JET"
=============================================================================
