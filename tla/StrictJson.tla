------------------------------ MODULE StrictJson ------------------------------
(***************************************************************************)
(* internal/jsonstrict/decode.go: the walk over the tokens of a body, with *)
(* its depth and its sets of keys, against what an unambiguous object is.  *)
(* A token is a string, commas and colons being left to encoding/json.     *)
(* So is the typed decode that follows a walk (decode.go:26-34): it may    *)
(* still refuse the body, and it matches the keys without regard to case.  *)
(***************************************************************************)
EXTENDS Integers, FiniteSetsExt, SequencesExt

CONSTANTS
  Names,      \* strings, which may be keys and values
  MaxDepth,
  MaxTokens   \* bound on the length of a body

Number == "number"
Openers == {"lbrace", "lbracket"}
Closers == {"rbrace", "rbracket"}
Tokens == Names \cup {Number} \cup Openers \cup Closers

ASSUME StrictJsonAssumption ==
  /\ MaxDepth \in Nat \ {0} /\ MaxTokens \in Nat
  /\ Names \cap ({Number} \cup Openers \cup Closers) = {}

-----------------------------------------------------------------------------
(* validateValue                                                           *)

\* A call that is inside its container: what it asks the decoder for next, "key",
\* "value" or "element", and the keys it has seen.  The calls under way are a sequence,
\* so a value is read at the depth of its length plus one.
Frame(next, keys) == [next |-> next, keys |-> keys]

Walk(at, frames) == [at |-> at, frames |-> frames]
Refused == Walk("refused", <<>>)

\* A call returns to the one that asked for its value.
Returned(frames) ==
  IF frames = <<>> THEN Walk("end", <<>>)
  ELSE LET next == IF Last(frames).next = "value" THEN "key" ELSE Last(frames).next
       IN  Walk("inside", Append(Front(frames), Frame(next, Last(frames).keys)))

ReadValue(frames, token) ==
  CASE Len(frames) >= MaxDepth -> Refused
    [] Len(frames) < MaxDepth /\ token = "lbrace" -> Walk("inside", Append(frames, Frame("key", {})))
    [] Len(frames) < MaxDepth /\ token = "lbracket" -> Walk("inside", Append(frames, Frame("element", {})))
    [] Len(frames) < MaxDepth /\ token \in Closers -> Refused
    [] OTHER -> Returned(frames)

ReadElement(frames, token) ==
  IF token = "rbracket" THEN Returned(Front(frames)) ELSE ReadValue(frames, token)

Remember(frames, keys) == Walk("inside", Append(Front(frames), Frame("value", keys)))

\* Fault: a key is not remembered.
ReadKeyForgetting(frames, token) ==
  CASE token = "rbrace" -> Returned(Front(frames))
    [] token \in Names -> Remember(frames, {})
    [] OTHER -> Refused

ReadKey(frames, token) ==
  CASE token = "rbrace" -> Returned(Front(frames))
    [] token \in Names \ Last(frames).keys -> Remember(frames, Last(frames).keys \cup {token})
    [] OTHER -> Refused

ReadToken(walk, token) ==
  CASE walk.at # "inside" -> Refused
    [] walk.at = "inside" /\ walk.frames = <<>> -> ReadValue(<<>>, token)
    [] walk.at = "inside" /\ walk.frames # <<>> ->
         CASE Last(walk.frames).next = "key" -> ReadKey(walk.frames, token)
           [] Last(walk.frames).next = "element" -> ReadElement(walk.frames, token)
           [] Last(walk.frames).next = "value" -> ReadValue(walk.frames, token)

\* The walk after each token of a body, and before the first.
Walked(body) ==
  LET after[i \in 0..Len(body)] ==
        IF i = 0 THEN Walk("inside", <<>>) ELSE ReadToken(after[i - 1], body[i])
  IN  after

\* DecodeObject up to its typed decode.
Validated(body) ==
  body # <<>> /\ Head(body) = "lbrace" /\ Walked(body)[Len(body)].at = "end"

-----------------------------------------------------------------------------
(* Reference                                                               *)

Count(body, i, kinds) == Cardinality({j \in 1..i : body[j] \in kinds})

\* How many containers are open before token i.
Level(body, i) == Count(body, i - 1, Openers) - Count(body, i - 1, Closers)

\* The container token i stands in, and what stands in the container opened by token i.
Parent(body, i) ==
  Max({j \in 1..(i - 1) : body[j] \in Openers /\ Level(body, j) = Level(body, i) - 1})
Inside(body, i) ==
  {j \in (i + 1)..Len(body) :
     body[j] \notin Closers /\ Level(body, j) = Level(body, i) + 1 /\ Parent(body, j) = i}
KeysOf(body, i) == {j \in Inside(body, i) : Cardinality({k \in Inside(body, i) : k < j}) % 2 = 0}

Balanced(body) ==
  /\ \A i \in 2..Len(body) : Level(body, i) > 0
  /\ Level(body, Len(body) + 1) = 0
  /\ \A i \in DOMAIN body : body[i] \in Closers =>
       body[i] = (IF body[Parent(body, i)] = "lbrace" THEN "rbrace" ELSE "rbracket")

Unambiguous(body) ==
  \A i \in DOMAIN body : body[i] = "lbrace" =>
    /\ Cardinality(Inside(body, i)) % 2 = 0
    /\ \A j \in KeysOf(body, i) : body[j] \in Names
    /\ \A j, k \in KeysOf(body, i) : body[j] = body[k] => j = k

IsKey(body, i) == i # 1 /\ body[Parent(body, i)] = "lbrace" /\ i \in KeysOf(body, Parent(body, i))

Shallow(body) ==
  \A i \in DOMAIN body : body[i] \notin Closers => IsKey(body, i) \/ Level(body, i) < MaxDepth

\* The walk lets a body through to its typed decode exactly when it is one object, all of
\* whose containers close, whose objects repeat no key, letter for letter, at any level,
\* and in which nothing, a key apart, stands deeper than allowed (decode.go:14-24, 37-108).
PassesTheUnambiguous ==
  \A body \in BoundedSeq(Tokens, MaxTokens) :
    Validated(body) <=>
      body # <<>> /\ Head(body) = "lbrace" /\ Balanced(body) /\ Unambiguous(body) /\ Shallow(body)
=============================================================================
