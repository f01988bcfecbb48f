---------------------------- MODULE Verification ----------------------------
(***************************************************************************)
(* The reading of Moltbook's challenges: two numbers in words and an       *)
(* operation between them.                                                 *)
(*                                                                         *)
(* A challenge is a sequence of words, of which some are stretched: letters *)
(* are repeated ("twenntyy").  The program collapses repeated letters, so   *)
(* a stretched word is recognised unless it has a double letter of its own: *)
(* "thhree" becomes "thre".  An operation is recognised only as it is       *)
(* spelled.  Capitals, brackets and dashes, which are removed, and numbers  *)
(* in digits are left out.  An answer is the operation and its operands.   *)
(***************************************************************************)
EXTENDS Integers, Sequences, SequencesExt

CONSTANTS Numbers, Second, Operation

VerificationAssumption ==
  Numbers \subseteq 0..9999 /\ Second \subseteq 0..9999

VARIABLES
  asked,   \* the operands and the operation
  words,   \* the challenge: what is before the operation, and after it
  answer

vars == <<asked, words, answer>>

Ones == <<"one", "two", "three", "four", "five", "six", "seven", "eight", "nine", "ten",
          "eleven", "twelve", "thirteen", "fourteen", "fifteen", "sixteen", "seventeen",
          "eighteen", "nineteen">>
Tens == <<"ten", "twenty", "thirty", "forty", "fifty", "sixty", "seventy", "eighty", "ninety">>
Doubled == {"three"} \cup {Ones[i] : i \in 13..19}

-----------------------------------------------------------------------------
\* How a number is written.
Below100(n) ==
  IF n = 0 THEN <<>> ELSE IF n < 20 THEN <<Ones[n]>>
  ELSE <<Tens[n \div 10]>> \o (IF n % 10 = 0 THEN <<>> ELSE <<Ones[n % 10]>>)
Below1000(n) ==
  (IF n < 100 THEN <<>> ELSE <<Ones[n \div 100], "hundred">>) \o Below100(n % 100)
InWords(n) ==
  IF n = 0 THEN <<"zero">>
  ELSE (IF n < 1000 THEN <<>> ELSE Below1000(n \div 1000) \o <<"thousand">>)
       \o Below1000(n % 1000)

\* A challenge in which the words at some places are stretched.
Token(w, stretched) == [word |-> w, stretched |-> stretched]
Tokens(ws, places)  == [i \in DOMAIN ws |-> Token(ws[i], i \in places)]

Init ==
  \E a \in Numbers, b \in Second, op \in Operation, stretchedOp \in BOOLEAN :
    \E places \in SUBSET DOMAIN InWords(a) :
      /\ asked = [op |-> op, first |-> a, second |-> b]
      /\ words = [before |-> Tokens(InWords(a), places), op |-> Token(op, stretchedOp),
                  after |-> Tokens(InWords(b), {})]
      /\ answer = <<>>

-----------------------------------------------------------------------------
\* lookupNumber: the value of a word, -1 when it is not recognised.
Lookup(token) ==
  IF token.stretched /\ token.word \in Doubled THEN -1
  ELSE IF token.word = "zero" THEN 0
  ELSE IF Contains(Ones, token.word) THEN CHOOSE i \in 1..19 : Ones[i] = token.word
  ELSE IF Contains(Tens, token.word) THEN 10 * CHOOSE i \in 2..9 : Tens[i] = token.word
  ELSE -1

Magnitude(token) ==
  CASE token.word = "hundred" -> 100 [] token.word = "thousand" -> 1000 [] OTHER -> 0

\* Mutant: "hundred" adds a hundred.
AddMagnitude(current, token) == current + Magnitude(token)

Scale(current, token) == current * Magnitude(token)

\* extractNumber: the last run of number words, each added to or multiplied
\* with what precedes it.  A magnitude begins a number only at the very start.
NoNumber == [at |-> 0, run |-> FALSE, value |-> -1]

ReadWord(acc, token) ==
  LET next  == [acc EXCEPT !.at = @ + 1]
      small == Lookup(token)
  IN  IF Magnitude(token) > 0
      THEN IF acc.run THEN [next EXCEPT !.value = Scale(@, token)]
           ELSE IF acc.at = 0 THEN [next EXCEPT !.value = Magnitude(token)]
           ELSE next
      ELSE IF small >= 0
      THEN [next EXCEPT !.value = (IF acc.run THEN @ ELSE 0) + small, !.run = TRUE]
      ELSE [next EXCEPT !.run = FALSE]

ExtractNumber(tokens) == FoldLeft(ReadWord, NoNumber, tokens).value

\* parseVerificationChallenge: no answer without an operation and two
\* numbers, or for a division by zero.
Parse(c) ==
  LET a == ExtractNumber(c.before)
      b == ExtractNumber(c.after)
  IN  IF c.op.stretched \/ a = -1 \/ b = -1 \/ (c.op.word = "divide" /\ b = 0)
      THEN <<"skipped">> ELSE <<c.op.word, a, b>>

Solve ==
  /\ answer = <<>>
  /\ answer' = Parse(words)
  /\ UNCHANGED <<asked, words>>

Next == Solve

Spec == Init /\ [][Next]_vars

-----------------------------------------------------------------------------
Right == <<asked.op, asked.first, asked.second>>

Recognisable ==
  /\ ~words.op.stretched /\ ~(asked.op = "divide" /\ asked.second = 0)
  /\ \A i \in DOMAIN words.before :
       words.before[i].stretched => words.before[i].word \notin Doubled

\* Two numbers below a thousand are read as they were meant, whichever words
\* are stretched, if no stretched word has a double letter.
ReadsNumbersBelowThousand ==
  answer # <<>> /\ Recognisable /\ asked.first < 1000 /\ asked.second < 1000 =>
    answer = Right
=============================================================================
