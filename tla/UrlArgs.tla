------------------------------- MODULE UrlArgs -------------------------------
(***************************************************************************)
(* The arguments of a request in the simulator: a browser encodes the      *)
(* fields of a form, and SplitGetReq takes them apart again.  A text is a  *)
(* sequence of tokens, each a character that stands for itself, or one     *)
(* that is written as %xy.                                                 *)
(*                                                                         *)
(* Source: simple_web_server/UrlHelper.cpp.                                *)
(***************************************************************************)
EXTENDS Naturals, Sequences, SequencesExt

CONSTANTS
    Plain,        \* characters that are sent as they are
    Special,      \* characters that are sent as %xy
    White,        \* those of them that are white space: a tab, a line's end
    Names,        \* the names of a form's fields
    MaxLength,    \* bound: characters of a form's values
    MaxFields     \* bound: fields of a form

VARIABLE form     \* the fields filled in, each with its name and value

Raw(c) == [char |-> c, escaped |-> FALSE]

-----------------------------------------------------------------------------
(* A browser: it sends a space as "+". *)

Encoded(c) ==
    IF c = " " THEN Raw("+") ELSE [char |-> c, escaped |-> c \notin Plain]

EncodedField(f) ==
    <<Raw(f.name), Raw("=")>> \o [i \in DOMAIN f.value |-> Encoded(f.value[i])]

\* Each field is followed by "&": SplitGetReq adds the last one itself.
Body == FlattenSeq([i \in DOMAIN form |->
                        Append(EncodedField(form[i]), Raw("&"))])

-----------------------------------------------------------------------------
(* SplitGetReq *)

\* What stands before each c of s, and what comes after the last.
Split(s, c) ==
    LET split[i \in 0..Len(s)] ==
            IF i = 0 THEN [done |-> <<>>, part |-> <<>>]
            ELSE LET before == split[i - 1] IN
                 IF s[i] = c
                   THEN [done |-> Append(before.done, before.part),
                         part |-> <<>>]
                   ELSE [done |-> before.done,
                         part |-> Append(before.part, s[i])]
    IN  split[Len(s)]

PlusToSpace(val) ==
    [i \in DOMAIN val |-> IF val[i] = Raw("+") THEN Raw(" ") ELSE val[i]]

\* A character goes through a stream that skips white space, so that %20 and
\* %09 are replaced by nothing; and the search goes on one position later,
\* behind the start of a %xy that follows it.
Unescape(val) ==
    LET empty(i) ==
            val[i] \in [char : White \cup {" "}, escaped : {TRUE}]
        passed[i \in 0..Len(val)] ==
            i > 1 /\ empty(i - 1) /\ ~passed[i - 1]
    IN  FlattenSeq([i \in DOMAIN val |->
            IF passed[i] THEN <<val[i]>>
            ELSE IF empty(i) THEN <<>> ELSE <<Raw(val[i].char)>>])

\* Mutant of Value: an escaped plus sign is taken for a space as well.
Value_PlusLast(val) == PlusToSpace(Unescape(val))

Value(val) == Unescape(PlusToSpace(val))

\* insert keeps the value that a name has already.
Params ==
    LET pairs == Split(Body, Raw("&")).done
        name(p) == Head(p).char
        first(n) == SelectInSeq(pairs, LAMBDA p : name(p) = n)
    IN  [n \in {name(pairs[i]) : i \in DOMAIN pairs} |->
            Value(SubSeq(pairs[first(n)], 3, Len(pairs[first(n)])))]

-----------------------------------------------------------------------------
(* The forms that are filled in. *)

AddField(n) ==
    /\ Len(form) < MaxFields
    /\ form' = Append(form, [name |-> n, value |-> <<>>])

Type(c) ==
    /\ form # <<>>
    /\ Len(FlattenSeq([i \in DOMAIN form |-> form[i].value])) < MaxLength
    /\ form' = [form EXCEPT ![Len(form)].value = Append(@, c)]

Init == form = <<>>

Next ==
    \/ \E n \in Names : AddField(n)
    \/ \E c \in Plain \cup Special \cup {" "} : Type(c)

Spec == Init /\ [][Next]_form

-----------------------------------------------------------------------------
\* A handler finds the fields of the form under their names; of two fields
\* with one name it finds the first, and it finds none that the form has not.
\* A value arrives as it was typed, spaces, percent and plus signs included,
\* whatever the other fields hold, unless white space other than the space is
\* in it, as after a paste.
FormArrives ==
    \A n \in Names :
        LET i == SelectInSeq(form, LAMBDA f : f.name = n) IN
        /\ (i = 0) = (n \notin DOMAIN Params)
        /\ \/ i = 0
           \/ \E k \in DOMAIN form[i].value : form[i].value[k] \in White
           \/ Params[n] = [k \in DOMAIN form[i].value |-> Raw(form[i].value[k])]
=============================================================================
