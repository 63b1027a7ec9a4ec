------------------------------ MODULE Normalize ------------------------------
(***************************************************************************)
(* normalize() (utils/normalize.py), which every pattern detector applies  *)
(* to a request value.  A text is a sequence of characters, each with the  *)
(* number of times it has been percent-encoded: [c |-> "a", d |-> 2] stands *)
(* for "%2561".  The percent sign itself is not in the alphabet, so        *)
(* decoding never forms a new escape out of neighbours.                    *)
(***************************************************************************)
EXTENDS Integers, Sequences, FiniteSets

CONSTANTS
    Upper,          \* a function: upper-case letters to lower-case ones
    MaxRounds       \* the decoding loop runs so many times, at most

ASSUME MaxRoundsNat == MaxRounds \in Nat
\* What lower() changes and what it makes of it are letters, and in lower case.
ASSUME LettersOnly ==
    LET signs == {"+", " ", "\n", "/", "*"}
    IN  \A c \in DOMAIN Upper : c \notin signs /\ Upper[c] \notin signs \union DOMAIN Upper

Plain(c) == [c |-> c, d |-> 0]
Space == Plain(" ")
Newline == Plain("\n")
Is(item, c) == item.d = 0 /\ item.c = c
IsWhite(item) == Is(item, " ") \/ Is(item, "\n")

\* A sequence of characters, whatever they are.
IsText(text) ==
    /\ text \in Seq({text[k] : k \in DOMAIN text})
    /\ \A k \in DOMAIN text : /\ text[k] = [c |-> text[k].c, d |-> text[k].d]
                              /\ text[k].d \in Nat

(* unquote_plus(): "+" becomes a space, then every escape is decoded once. *)
UnquotePlus(text) ==
    [k \in DOMAIN text |->
        IF Is(text[k], "+") THEN Space
        ELSE IF text[k].d > 0 THEN [text[k] EXCEPT !.d = @ - 1] ELSE text[k]]

\* Until it is stable; a stable text stays as it is.
Decoded(text) ==
    LET round[n \in 0..MaxRounds] == IF n = 0 THEN text ELSE UnquotePlus(round[n - 1])
    IN  round[MaxRounds]

Lower(text) ==
    [k \in DOMAIN text |->
        IF text[k].d = 0 /\ text[k].c \in DOMAIN Upper THEN Plain(Upper[text[k].c]) ELSE text[k]]

\* A comment opens at k: the ends of the comments it may be, none of which
\* contains a line break.
Ends(text, k) ==
    {e \in k + 3..Len(text) :
        /\ Is(text[k], "/") /\ Is(text[k + 1], "*")
        /\ Is(text[e - 1], "*") /\ Is(text[e], "/")
        /\ \A j \in k + 2..e - 2 : text[j] # Newline}
First(ends) == CHOOSE e \in ends : \A f \in ends : e <= f

\* Mutant: nothing is left in the place of a comment.
StripCommentsJoining(text) ==
    LET rest[k \in 1..Len(text) + 1] ==
            IF k > Len(text) THEN <<>>
            ELSE IF Ends(text, k) = {} THEN <<text[k]>> \o rest[k + 1]
            ELSE rest[First(Ends(text, k)) + 1]
    IN  rest[1]

\* From left to right, every comment becomes a space.
StripComments(text) ==
    LET rest[k \in 1..Len(text) + 1] ==
            IF k > Len(text) THEN <<>>
            ELSE IF Ends(text, k) = {} THEN <<text[k]>> \o rest[k + 1]
            ELSE <<Space>> \o rest[First(Ends(text, k)) + 1]
    IN  rest[1]

\* The items of a sequence at the given positions, in their order.
ItemsAt(seq, positions) ==
    LET Nth(i) == CHOOSE k \in positions : Cardinality({j \in positions : j < k}) = i - 1
    IN  [i \in 1..Cardinality(positions) |-> seq[Nth(i)]]

\* Of a run of white space inside the text the first stays, as a space.
Kept(text) ==
    {k \in DOMAIN text :
        \/ ~IsWhite(text[k])
        \/ /\ k > 1 /\ ~IsWhite(text[k - 1])
           /\ \E j \in k + 1..Len(text) : ~IsWhite(text[j])}
Collapse(text) ==
    ItemsAt([k \in DOMAIN text |-> IF IsWhite(text[k]) THEN Space ELSE text[k]], Kept(text))

\* Mutant: one round of decoding.
NormalizeOnce(text) == Collapse(StripComments(Lower(UnquotePlus(text))))

Normalize(text) == Collapse(StripComments(Lower(Decoded(text))))
=============================================================================
