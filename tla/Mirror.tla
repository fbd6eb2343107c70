------------------------------- MODULE Mirror -------------------------------
(***************************************************************************)
(* What the outbound pipeline promises of a binding whose chat is known:   *)
(* "one turn = one updatable card".  The cards of the chat are a sequence  *)
(* of turns in transcript order.  Only the newest card changes, it goes on *)
(* showing the turn it was posted for, and a change only adds lines.  The  *)
(* specification says nothing of offsets, tasks, requests or failures.     *)
(***************************************************************************)
EXTENDS Integers, Sequences

CONSTANTS
    Kinds,      \* the kinds of line Claude writes
    MaxLines    \* bound: lines in the transcript

VARIABLES
    jsonl,      \* the transcript: the kind of each line
    cards       \* the chat: [turn, lines, live] of each card, oldest first

vars == <<jsonl, cards>>

\* A turn is named by the user line that opens it, and by 0 if none does.
Turns == {0} \cup {i \in DOMAIN jsonl : jsonl[i] = "user"}
InTurn(t, i) == t < i /\ \A u \in t + 1 .. i : jsonl[u] # "user"

\* The lines of turn t with something to show among the first n of the transcript.
LinesOf(t, n) == {i \in 1 .. n : InTurn(t, i) /\ jsonl[i] \in {"text", "file"}}

Init == jsonl = << >> /\ cards = << >>

Write(k) ==
    /\ Len(jsonl) < MaxLines
    /\ jsonl' = Append(jsonl, k) /\ UNCHANGED cards

\* A card for a turn newer than any that has one; an empty card has a spinner.
Post(t, n, live) ==
    /\ \A c \in DOMAIN cards : cards[c].turn < t
    /\ live \/ LinesOf(t, n) # {}
    /\ cards' = Append(cards, [turn |-> t, lines |-> LinesOf(t, n), live |-> live])
    /\ UNCHANGED jsonl

\* The newest card catches up with its turn.
Extend(n, live) ==
    /\ cards # << >>
    /\ LET c == Len(cards)
           t == cards[c].turn
       IN  /\ cards[c].lines \subseteq LinesOf(t, n)
           /\ live \/ LinesOf(t, n) # {}
           /\ cards' = [cards EXCEPT ![c].lines = LinesOf(t, n), ![c].live = live]
    /\ UNCHANGED jsonl

Next ==
    \/ \E k \in Kinds : Write(k)
    \/ \E n \in 0 .. Len(jsonl), live \in BOOLEAN :
        \/ \E t \in Turns : Post(t, n, live)
        \/ Extend(n, live)

Spec == Init /\ [][Next]_vars
=============================================================================
