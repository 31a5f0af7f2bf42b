-------------------------- MODULE TerminalDecoder --------------------------
(***************************************************************************)
(* How the stock VIA mode tells controls from text: the terminal sends a   *)
(* byte sequence for each key, and TerminalSequenceDecoder                 *)
(* (src/src/input/terminal-sequence-decoder.ts) finds the configured ones  *)
(* in a stream that arrives in chunks of any size.  A decoder is the bytes *)
(* it holds back and their age; "tokens" are its emissions, one for each   *)
(* control and one for each byte that is passed through.  The last section *)
(* says what a decoding should be, without the loop.                       *)
(***************************************************************************)
EXTENDS Naturals, SequencesExt

CONSTANTS Bindings,  \* the byte sequence of each configured control
          Patience   \* ambiguityTimeoutMs, in ticks of the model's clock

ASSUME BindingsAssumption ==
  /\ \A c \in DOMAIN Bindings : Bindings[c] \in Seq(STRING) /\ Bindings[c] # <<>>
  /\ \A c, d \in DOMAIN Bindings : Bindings[c] = Bindings[d] => c = d

ASSUME PatienceAssumption == Patience \in Nat

Bound == DOMAIN Bindings

ControlToken(c) == [kind |-> "control", what |-> c]
TextToken(byte) == [kind |-> "text", what |-> byte]

Tokens == [kind : {"control"}, what : Bound] \cup [kind : {"text"}, what : STRING]

EmptyDecoder == [pending |-> <<>>, age |-> 0, tokens |-> <<>>]

-----------------------------------------------------------------------------
Candidates(p)    == {c \in Bound : IsPrefix(p, Bindings[c])}
Longer(p)        == {c \in Candidates(p) : Bindings[c] # p}
ExactPrefixes(p) == {c \in Bound : IsPrefix(Bindings[c], p)}

LongestExactPrefix(p) ==
  CHOOSE c \in ExactPrefixes(p) :
    \A d \in ExactPrefixes(p) : Len(Bindings[d]) <= Len(Bindings[c])

\* Mutant: an exact match is taken at once, a longer control or not.
TooEager(p, force) == p = <<>> \/ (~force /\ Longer(p) # {} /\ ExactPrefixes(p) = {})

\* What is pending may still become a longer control.
Undecided(p, force) == p = <<>> \/ (~force /\ Longer(p) # {})

\* The bytes decided first, as tokens.  A pending sequence that is itself a
\* control is the longest of its own exact prefixes.
Decided(p, force) ==
  IF ExactPrefixes(p) # {} THEN <<ControlToken(LongestExactPrefix(p))>>
  ELSE IF force THEN [i \in DOMAIN p |-> TextToken(p[i])]
  ELSE <<TextToken(Head(p))>>

Spelling(tokens) ==
  FlattenSeq([i \in DOMAIN tokens |->
                IF tokens[i].kind = "control" THEN Bindings[tokens[i].what]
                                              ELSE <<tokens[i].what>>])

DecoderStates == [pending : Seq(STRING), age : Nat, tokens : Seq(Tokens)]

Take(d, taken) ==
  [pending |-> SubSeq(d.pending, Len(Spelling(taken)) + 1, Len(d.pending)),
   age     |-> 0,
   tokens  |-> d.tokens \o taken]

Process(d, force) ==
  LET process[e \in DecoderStates] ==
        IF Undecided(e.pending, force) THEN e
        ELSE process[Take(e, Decided(e.pending, force))]
  IN process[d]

Flush(d) == Process(d, TRUE)

\* flushDeadline has passed.
Overdue(d) == d.pending # <<>> /\ d.age >= Patience

FlushExpired(d) == IF Overdue(d) THEN Flush(d) ELSE d

Push(d, chunk) ==
  LET e == FlushExpired(d) IN Process([e EXCEPT !.pending = @ \o chunk], FALSE)

-----------------------------------------------------------------------------
(***************************************************************************)
(* The reference: at every token the longest control that the bytes from   *)
(* there on begin with, or one byte of text where there is none; and only  *)
(* what may still become a longer control is held back.                    *)
(***************************************************************************)
RightAt(tokens, rest, i) ==
  LET ahead == Spelling(SubSeq(tokens, i, Len(tokens))) \o rest
      here  == {c \in Bound : IsPrefix(Bindings[c], ahead)}
  IN IF tokens[i].kind = "text"
       THEN here = {}
       ELSE \A c \in here : Len(Bindings[c]) <= Len(Bindings[tokens[i].what])

RightDecoding(tokens, rest) ==
  /\ \A i \in DOMAIN tokens : RightAt(tokens, rest, i)
  /\ rest = <<>> \/ \E c \in Bound : IsPrefix(rest, Bindings[c]) /\ rest # Bindings[c]
=============================================================================
