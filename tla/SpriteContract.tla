--------------------------- MODULE SpriteContract ---------------------------
(***************************************************************************)
(* What the instruction Dxyn promises, seen from the pixels of the screen: *)
(* those the sprite covers are inverted, no other pixel changes, and the   *)
(* flag tells whether one of them was lit.  To a wrapping sprite the       *)
(* screen is a torus, to a clipped one it is a window.                     *)
(***************************************************************************)
EXTENDS Integers

CONSTANTS
    Width, Height,
    Requests,   \* records [sprite, x, y, clip] of the sprites a program draws
    None        \* no sprite is being drawn

VARIABLES
    screen,     \* the pixels that are lit
    flag,       \* the collision flag
    request     \* the sprite being drawn, or None

Screen == (0 .. Width - 1) \X (0 .. Height - 1)

\* The pixels that show a bit of the sprite, a set of <<column, row>> whose
\* first bit is drawn at <<x, y>>.
Covered(r) ==
    { p \in Screen :
        IF r.clip
        THEN <<p[1] - r.x, p[2] - r.y>> \in r.sprite
        ELSE <<(p[1] - r.x) % Width, (p[2] - r.y) % Height>> \in r.sprite }

Inverted(lit, pixels) == (lit \ pixels) \cup (pixels \ lit)

SpriteInit == screen \in SUBSET Screen /\ flag \in BOOLEAN /\ request = None

Request(r) == request = None /\ request' = r /\ UNCHANGED <<screen, flag>>

Draw ==
    /\ request # None
    /\ screen' = Inverted(screen, Covered(request))
    /\ flag' = (screen \cap Covered(request) # {})
    /\ request' = None

\* Any other instruction writes the flag or clears the screen.
SetFlag == request = None /\ flag' \in BOOLEAN /\ UNCHANGED <<screen, request>>
Clear   == request = None /\ screen' = {} /\ UNCHANGED <<flag, request>>

SpriteNext == (\E r \in Requests : Request(r)) \/ Draw \/ SetFlag \/ Clear

SpriteSpec == SpriteInit /\ [][SpriteNext]_<<screen, flag, request>>
=============================================================================
