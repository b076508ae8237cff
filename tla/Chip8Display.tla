---------------------------- MODULE Chip8Display ----------------------------
(***************************************************************************)
(* DrawSprite of the CHIP-8 core, one bit of the sprite at a time: the     *)
(* loop over rows and columns inverts one byte of _display for each set    *)
(* bit and latches the collision flag.  SpriteContract says what the whole *)
(* loop amounts to.                                                        *)
(*                                                                         *)
(* The calls are those that pass the guard of DrawSprite: a height of at   *)
(* least one, and rows within memory.  Chip8Core has the guard.            *)
(***************************************************************************)
EXTENDS Integers

CONSTANTS
    Width, Height,     \* 64 and 32
    SpriteWidth,       \* 8
    MaximumHeight,     \* 15, the largest nibble
    Coordinates,       \* the values of the registers that give the origin
    NoSprite           \* no sprite is being drawn

Columns == 0 .. SpriteWidth - 1
Rows == 0 .. MaximumHeight - 1
Pixels == 0 .. Width * Height - 1

ASSUME DisplayAssumption ==
    /\ SpriteWidth \in Nat \ {0} /\ MaximumHeight \in Nat
    /\ Width \in Nat \ {0} /\ Height \in Nat \ {0}
    /\ SpriteWidth <= Width /\ MaximumHeight <= Height
    /\ Coordinates \subseteq Nat

\* A sprite is the set of <<column, row>> whose bit is set in its bytes.
Sprites(height) == SUBSET (Columns \X (0 .. height - 1))

Calls ==
    UNION { [sprite : Sprites(height), height : {height}, x : 0 .. Width - 1,
             y : 0 .. Height - 1, clip : BOOLEAN] : height \in 1 .. MaximumHeight }

ASSUME NoSpriteAssumption == NoSprite \notin Calls

VARIABLES
    display,    \* the lit pixels of _display
    flag,       \* whether register F is set
    call,       \* the parameters of the running DrawSprite, or NoSprite
    row, column,
    before      \* the display and the flag when it was called

displayVars == <<display, flag, call, row, column, before>>

----------------------------------------------------------------------------
\* Variant that must break a property: only the columns are clipped.
ClippedColumns(c, at) == c.clip /\ c.x + at[1] >= Width

\* The ClipSprites quirk drops the bits beyond the right and the bottom edge.
Clipped(c, at) == c.clip /\ (c.x + at[1] >= Width \/ c.y + at[2] >= Height)

\* The byte of _display that the bit at <<column, row>> of the sprite inverts.
Target(c, at) == ((c.y + at[2]) % Height) * Width + ((c.x + at[1]) % Width)

Drawn(c, at) == at \in c.sprite /\ ~Clipped(c, at)

DisplayInit ==
    /\ display \in SUBSET Pixels
    /\ flag \in BOOLEAN
    /\ call = NoSprite
    /\ row = 0 /\ column = 0
    /\ before = [display |-> display, flag |-> flag]

\* The entry of DrawSprite, up to its loop.
DrawSprite(x, y, height, sprite, clip) ==
    /\ call = NoSprite
    /\ call' = [sprite |-> sprite, height |-> height,
                x |-> x % Width, y |-> y % Height, clip |-> clip]
    /\ flag' = FALSE
    /\ row' = 0 /\ column' = 0
    /\ before' = [display |-> display, flag |-> flag]
    /\ UNCHANGED display

Invert(pixel) ==
    /\ flag' = (flag \/ pixel \in display)
    /\ display' = IF pixel \in display THEN display \ {pixel} ELSE display \cup {pixel}

Advance ==
    IF column + 1 < SpriteWidth
    THEN column' = column + 1 /\ row' = row
    ELSE column' = 0 /\ row' = row + 1

DrawBit ==
    /\ call # NoSprite
    /\ row < call.height
    /\ IF Drawn(call, <<column, row>>)
       THEN Invert(Target(call, <<column, row>>))
       ELSE UNCHANGED <<display, flag>>
    /\ Advance
    /\ UNCHANGED <<call, before>>

Return ==
    /\ call # NoSprite
    /\ row = call.height
    /\ call' = NoSprite
    /\ UNCHANGED <<display, flag, row, column, before>>

\* 00E0, and the instructions that write register F.
ClearDisplay == call = NoSprite /\ display' = {} /\ UNCHANGED <<flag, call, row, column, before>>
WriteFlag == call = NoSprite /\ flag' \in BOOLEAN /\ UNCHANGED <<display, call, row, column, before>>

DisplayNext ==
    \/ \E x \in Coordinates, y \in Coordinates, height \in 1 .. MaximumHeight, clip \in BOOLEAN :
        \E sprite \in Sprites(height) : DrawSprite(x, y, height, sprite, clip)
    \/ DrawBit
    \/ Return
    \/ ClearDisplay
    \/ WriteFlag

DisplaySpec == DisplayInit /\ [][DisplayNext]_displayVars

----------------------------------------------------------------------------
(* Properties.                                                             *)

(* Every reachable state is of the declared kind: a screen is a set of lit pixels of the display. *)
DisplayTypeOK ==
    /\ display \subseteq Pixels
    /\ flag \in BOOLEAN
    /\ call \in Calls \cup {NoSprite}
    /\ column \in Nat /\ row \in Nat
    /\ call # NoSprite => row <= call.height /\ column < SpriteWidth
    /\ call # NoSprite /\ row = call.height => column = 0
    /\ before \in [display : SUBSET Pixels, flag : BOOLEAN]

\* The bits of the sprite the loop has passed.
Visited == {at \in Columns \X Rows : at[2] < row \/ (at[2] = row /\ at[1] < column)}

Hit == {Target(call, at) : at \in {b \in Visited : Drawn(call, b)}}

\* At every step of the loop the display differs from the one it started on in
\* exactly the pixels drawn so far, and the flag is set exactly if one of them
\* was lit: no bit of a sprite meets a pixel another bit has already inverted,
\* on whichever edges it wraps.
PartlyDrawn ==
    call # NoSprite =>
        /\ display = (before.display \ Hit) \cup (Hit \ before.display)
        /\ flag = (before.display \cap Hit # {})

\* A clipped sprite never changes a pixel to the left of its origin or above it.
ClippedInWindow ==
    [][call # NoSprite /\ call.clip =>
        \A pixel \in (display \ display') \cup (display' \ display) :
            pixel % Width >= call.x /\ pixel \div Width >= call.y]_displayVars

\* The whole loop is the one step of the contract.
At(lit) == {<<pixel % Width, pixel \div Width>> : pixel \in lit}

Contract ==
    INSTANCE SpriteContract WITH
        Requests <- Calls,
        None <- NoSprite,
        request <- call,
        screen  <- At(IF call = NoSprite THEN display ELSE before.display),
        flag    <- IF call = NoSprite THEN flag ELSE before.flag

ImplementsContract == Contract!SpriteSpec
=============================================================================
