------------------------------ MODULE Registry ------------------------------
(***************************************************************************)
(* The registry of libj (src/libj/jreg): a tree of named variables, some   *)
(* of them blocks with variables of their own, classes that say which      *)
(* type a variable of a block must have, and the text file it is loaded    *)
(* from and saved to.                                                      *)
(*                                                                         *)
(* A text is a sequence of characters (a boolean keyword is one            *)
(* "character"), a file a sequence of lines.  What no reader looks at is   *)
(* left out: comments, indentation, line numbers and messages.  A class    *)
(* table C gives for each class its registered names, and for each of      *)
(* these a type and (for a block) a class.                                 *)
(***************************************************************************)
EXTENDS Integers, Sequences, SequencesExt

NoClass == "null"
Quote == "\""
Backslash == "\\"
NewLine == "\n"
Digits == {"0", "1", "2", "8", "9"}
Booleans == {"True", "False"}

(* printf's "%e": only so many characters of a number are written.         *)
Precision == 3

Scalar(n, t, x) == [name |-> n, type |-> t, value |-> x]
Block(n, k, vs) == [name |-> n, type |-> "block", klass |-> k, vars |-> vs]

-----------------------------------------------------------------------------
(* Classes and blocks.                                                     *)

LookupClass(C, k) == IF k \in DOMAIN C THEN k ELSE NoClass

IsRegistered(C, k, n) == k \in DOMAIN C /\ n \in DOMAIN C[k]
InfoType(C, k, n) == IF IsRegistered(C, k, n) THEN C[k][n].type ELSE "any"
InfoClass(C, k, n) == IF IsRegistered(C, k, n) THEN C[k][n].klass ELSE NoClass

(* The position of variable n, 0 when there is none.                       *)
Lookup(vs, n) == SelectInSeq(vs, LAMBDA v : v.name = n)

(* A variable of another type, or a block of another class, than           *)
(* registered is not taken.                                                *)
Refused(C, b, v) ==
    \/ InfoType(C, b.klass, v.name) \notin {"any", v.type}
    \/ /\ v.type = "block"
       /\ InfoClass(C, b.klass, v.name) \notin {NoClass, v.klass}

(* Faulty: only registered variables are taken.                            *)
SetVarKnown(C, b, v) ==
    IF IsRegistered(C, b.klass, v.name) /\ ~Refused(C, b, v)
    THEN [b EXCEPT !.vars = Append(SelectSeq(@, LAMBDA w : w.name # v.name), v)] ELSE b

(* Block b with variable v set: in its old place, else at the end.         *)
SetVar(C, b, v) ==
    LET i == Lookup(b.vars, v.name)
    IN  IF Refused(C, b, v) THEN b
        ELSE IF i = 0 THEN [b EXCEPT !.vars = Append(@, v)]
        ELSE [b EXCEPT !.vars[i] = v]

RECURSIVE MergeVars(_, _, _)
(* Block variable v merged into a block of the same name and class, or set. *)
MergeBlock(C, b, v) ==
    LET i == Lookup(b.vars, v.name)
    IN  IF i # 0 /\ b.vars[i].type = "block" /\ b.vars[i].klass = v.klass
        THEN [b EXCEPT !.vars[i] = MergeVars(C, @, v.vars)]
        ELSE SetVar(C, b, v)

(* The variables vs added to block b one by one, up to one that is refused. *)
MergeVars(C, b, vs) ==
    IF vs = <<>> \/ Refused(C, b, Head(vs)) THEN b
    ELSE MergeVars(C,
           IF Head(vs).type = "block" THEN MergeBlock(C, b, Head(vs))
                                      ELSE SetVar(C, b, Head(vs)),
           Tail(vs))

RECURSIVE SetAt(_, _, _, _)
(* Variable v set in the block that path leads to from b, if there is one. *)
SetAt(C, b, path, v) ==
    IF path = <<>> THEN SetVar(C, b, v)
    ELSE LET i == Lookup(b.vars, Head(path))
         IN  IF i = 0 \/ b.vars[i].type # "block" THEN b
             ELSE [b EXCEPT !.vars[i] = SetAt(C, @, Tail(path), v)]

RECURSIVE GetAt(_, _, _, _, _)
(* The value of variable n of type t in the block at path, else x.         *)
GetAt(b, path, n, t, x) ==
    LET i == Lookup(b.vars, IF path = <<>> THEN n ELSE Head(path))
    IN  CASE i = 0 -> x
          [] i # 0 /\ path = <<>> ->
                IF b.vars[i].type = t THEN b.vars[i].value ELSE x
          [] OTHER -> IF b.vars[i].type = "block"
                      THEN GetAt(b.vars[i], Tail(path), n, t, x) ELSE x

-----------------------------------------------------------------------------
(* Texts.                                                                  *)

(* Faulty: the backslash itself is forgotten.                              *)
EscapeQuotes(s) ==
    FlattenSeq([i \in 1..Len(s) |-> IF s[i] = Quote THEN <<Backslash, Quote>> ELSE <<s[i]>>])

Escape(s) ==
    FlattenSeq([i \in 1..Len(s) |->
        CASE s[i] \in {Quote, Backslash} -> <<Backslash, s[i]>>
          [] s[i] = NewLine -> <<Backslash, "n">>
          [] OTHER -> <<s[i]>>])

RECURSIVE Unescape(_)
(* Escapes with digits, which Escape never writes, are left out.           *)
Unescape(s) ==
    CASE s = <<>> \/ s = <<Backslash>> -> <<>>
      [] Len(s) > 1 /\ s[1] = Backslash ->
            <<CASE s[2] = "n" -> NewLine
                [] s[2] = "b" -> "backspace"
                [] OTHER -> s[2]>> \o Unescape(SubSeq(s, 3, Len(s)))
      [] OTHER -> <<s[1]>> \o Unescape(Tail(s))

(* All the quotes go first, the escaped ones with them.                    *)
UnescapeQuoted(s) == Unescape(SelectSeq(s, LAMBDA c : c # Quote))

RECURSIVE ScanFrom(_, _, _, _)
ScanFrom(s, i, quoted, c) ==
    CASE i > Len(s) -> 0
      [] i <= Len(s) /\ s[i] = Quote -> ScanFrom(s, i + 1, ~quoted, c)
      [] i < Len(s) /\ s[i] = Backslash -> ScanFrom(s, i + 2, quoted, c)
      [] OTHER -> IF ~quoted /\ s[i] = c THEN i
                  ELSE ScanFrom(s, i + 1, quoted, c)

(* Where c first stands outside of quotes and without a backslash, else 0. *)
EscapedScan(s, c) == ScanFrom(s, 1, FALSE, c)

EscapedChop(s, c) ==
    LET i == EscapedScan(s, c) IN IF i = 0 THEN s ELSE SubSeq(s, 1, i - 1)

-----------------------------------------------------------------------------
(* Lines: block begins, block ends, assignments (of a text), lines that    *)
(* cannot be parsed, and lines that are passed over.                       *)

Begin(n, k) == [kind |-> "begin", name |-> n, klass |-> k]
End == [kind |-> "end"]
Assign(n, text) == [kind |-> "set", name |-> n, text |-> text]
Junk == [kind |-> "junk"]
Skip == [kind |-> "skip"]

Printed(v) ==
    CASE v.type = "str" -> <<Quote>> \o Escape(v.value) \o <<Quote, ";">>
      [] v.type = "dbl" ->
            SubSeq(v.value, 1, IF Len(v.value) < Precision THEN Len(v.value)
                               ELSE Precision) \o <<";">>
      [] OTHER -> v.value \o <<";">>

RECURSIVE SaveVars(_)
(* The lines that reg_save writes for the variables vs.                    *)
SaveVars(vs) ==
    FlattenSeq([i \in 1..Len(vs) |->
        IF vs[i].type = "block"
        THEN <<Begin(vs[i].name, vs[i].klass)>> \o SaveVars(vs[i].vars) \o <<End>>
        ELSE <<Assign(vs[i].name, Printed(vs[i]))>>])

(* The type that a text without quotes has, "none" when it is malformed.   *)
TypeOfText(t) ==
    CASE t \in {<<b>> : b \in Booleans} -> "bool"
      [] \A i \in 1..Len(t) : t[i] \in Digits -> "int"
      [] /\ \A i \in 1..Len(t) : t[i] \in Digits \cup {"."}
         /\ Cardinality({i \in 1..Len(t) : t[i] = "."}) = 1 -> "dbl"
      [] OTHER -> IF t[1] = Quote THEN "str" ELSE "none"

ValueOf(t, type) == IF type = "str" THEN UnescapeQuoted(t) ELSE t

(* What the reader makes of the text t assigned to n: it looks for the     *)
(* braces of a block before it looks at the value.                         *)
Lexed(n, t) ==
    CASE EscapedScan(t, "{") # 0 -> Begin(n, NoClass)
      [] EscapedScan(t, "}") # 0 -> End
      [] t = <<>> \/ TypeOfText(t) = "none" -> Skip
      [] OTHER -> [kind |-> "var",
                   var |-> Scalar(n, TypeOfText(t), ValueOf(t, TypeOfText(t)))]

ReadLine(l) == IF l.kind = "set" THEN Lexed(l.name, EscapedChop(l.text, ";")) ELSE l

-----------------------------------------------------------------------------
(* Loading.  The blocks that are open, the top block first, stand for the  *)
(* nested calls of the reader; "failed" for their failing returns.         *)

(* The innermost block ends and is merged into the next.                   *)
CloseBlock(C, open) ==
    Append(SubSeq(open, 1, Len(open) - 2),
           MergeBlock(C, open[Len(open) - 1], open[Len(open)]))

ReadInto(C, open, l) ==
    CASE l.kind = "begin" -> Append(open, Block(l.name, LookupClass(C, l.klass), <<>>))
      [] l.kind = "end" -> IF Len(open) = 1 THEN open ELSE CloseBlock(C, open)
      [] l.kind = "var" -> [open EXCEPT ![Len(open)] = SetVar(C, @, l.var)]
      [] OTHER -> open

LoadLine(C, st, l) ==
    IF st.failed THEN st
    ELSE [open |-> ReadInto(C, st.open, l), failed |-> l.kind = "junk"]

(* A block without an end is given up, with the file.                      *)
Finished(st) == [ok |-> ~st.failed /\ Len(st.open) = 1, block |-> st.open[1]]

(* Faulty: blocks that have no end are ended by the file.                  *)
LoadTopEndless(C, f, b) ==
    LET open == FoldLeft(LAMBDA o, l : ReadInto(C, o, ReadLine(l)), <<b>>, f)
    IN  [ok |-> TRUE,
         block |-> FoldLeft(LAMBDA o, i : CloseBlock(C, o), open, Tail(open))[1]]

(* The top block b after file f has been read; what was merged before an   *)
(* error stays.                                                            *)
LoadTop(C, f, b) ==
    Finished(FoldLeft(LAMBDA st, l : LoadLine(C, st, ReadLine(l)),
                      [open |-> <<b>>, failed |-> FALSE], f))
=============================================================================
