------------------------------ MODULE Rendering ------------------------------
(***************************************************************************)
(* PromptVariableEngineService.render: the placeholders of a template are  *)
(* replaced one variable after the other, with String.replace, in the text *)
(* as it has become by then.  A text is a sequence of characters, so that  *)
(* what a value leaves next to its neighbours may be a placeholder that    *)
(* nobody wrote.  Clients write templates of snippets and send values.     *)
(***************************************************************************)
EXTENDS Positions, SequencesExt

CONSTANTS
    Letters,        \* characters of a variable's name
    Snippets,       \* texts that templates are put together from
    SentValues,     \* texts that clients send
    MaxText         \* bound on the snippets of a template

ASSUME MaxTextAssumption == MaxText \in Nat

VARIABLES
    template,
    inputs,         \* a value for some of the names
    rendered,
    remaining       \* required variables still to be replaced, in order

renderingVars == <<template, inputs, rendered, remaining>>

-----------------------------------------------------------------------------
\* /\{\{\s*name\s*\}\}/ : from i to j, two braces, a name between spaces, two
\* braces.  Of two placeholders neither begins inside the other.
NameBetween(text, i, j) ==
    \E from, to \in i .. j :
        from <= to /\ \A m \in i .. j : text[m] \in IF m \in from .. to THEN Letters ELSE {" "}

EndOf(text, i) ==
    {j \in i + 4 .. Len(text) :
        /\ SubSeq(text, i, i + 1) = <<"{", "{">>
        /\ SubSeq(text, j - 1, j) = <<"}", "}">>
        /\ NameBetween(text, i + 2, j - 2)}
Starts(text) == {i \in DOMAIN text : EndOf(text, i) # {}}
Span(text, i) == i .. Max(EndOf(text, i))
NameAt(text, i) == SelectSeq(SubSeq(text, i, Max(EndOf(text, i))), LAMBDA c : c \in Letters)

\* extractVariables: each name once, in the order they first occur.
FirstStarts(text) ==
    LET starts == Starts(text)
    IN {i \in starts : \A j \in starts : j < i => NameAt(text, j) # NameAt(text, i)}
Required(text) ==
    LET starts == FirstStarts(text)
    IN [n \in 1 .. Cardinality(starts) |-> NameAt(text, Nth(starts, n))]

Texts == {FlattenSeq(snippets) : snippets \in UNION {[1 .. n -> Snippets] : n \in 0 .. MaxText}}
Variables == {<<c>> : c \in Letters}

RenderingInit ==
    /\ template \in Texts
    /\ \E given \in SUBSET Variables : inputs \in [given -> SentValues]
    /\ rendered = template
    /\ remaining = Required(template)

\* inputs[key] ?? ''
Value(name) == IF name \in DOMAIN inputs THEN inputs[name] ELSE <<>>

-----------------------------------------------------------------------------
\* String.replace takes $$, $&, $` and $' in what it puts in for a dollar,
\* what it found, and what is before and after that.  A dollar that follows an
\* odd number of them is the second half of a $$.  (The characters ` and ' are
\* spelled out here.)
Specials == {"$", "&", "backquote", "quote"}
DollarsBefore(value, i) ==
    Cardinality({j \in 1 .. i - 1 : \A m \in j .. i - 1 : value[m] = "$"})
Patterns(value) ==
    {i \in 1 .. Len(value) - 1 :
        /\ value[i] = "$" /\ DollarsBefore(value, i) % 2 = 0
        /\ value[i + 1] \in Specials}

Meaning(special, text, span) ==
    CASE special = "$" -> <<"$">>
      [] special = "&" -> SubSeq(text, Min(span), Max(span))
      [] special = "backquote" -> SubSeq(text, 1, Min(span) - 1)
      [] special = "quote" -> SubSeq(text, Max(span) + 1, Len(text))

Expanded(value, text, span) ==
    FlattenSeq([i \in DOMAIN value |->
        IF i \in Patterns(value) THEN Meaning(value[i + 1], text, span)
        ELSE IF i - 1 \in Patterns(value) THEN <<>> ELSE <<value[i]>>])

\* A text with the placeholders that begin at some positions replaced.
With(text, starts, Put(_)) ==
    LET covered == UNION {Span(text, i) : i \in starts}
    IN FlattenSeq([i \in DOMAIN text |->
            IF i \in starts THEN Put(i) ELSE IF i \in covered THEN <<>> ELSE <<text[i]>>])

StartsOf(text, name) == {i \in Starts(text) : NameAt(text, i) = name}

\* All of a name's placeholders at once (flag g); the first of them only.
ReplacedFirst(text, name) ==
    With(text, {i \in StartsOf(text, name) : \A j \in StartsOf(text, name) : i <= j},
         LAMBDA i : Expanded(Value(name), text, Span(text, i)))

Replaced(text, name) ==
    With(text, StartsOf(text, name), LAMBDA i : Expanded(Value(name), text, Span(text, i)))

Substitute ==
    /\ remaining # <<>>
    /\ rendered' = Replaced(rendered, Head(remaining))
    /\ remaining' = Tail(remaining)
    /\ UNCHANGED <<template, inputs>>

RenderingNext == Substitute

RenderingSpec == RenderingInit /\ [][RenderingNext]_renderingVars

-----------------------------------------------------------------------------
\* What rendering is meant to be: every placeholder gives way to its value at
\* once, and values are not looked into.
Substituted(text) ==
    With(text, Starts(text), LAMBDA i : Value(NameAt(text, i)))

\* A text whose braces are those of its placeholders
Tidy(text) ==
    \A i \in DOMAIN text : text[i] \in {"{", "}"} => \E s \in Starts(text) : i \in Span(text, s)
Plain(value) ==
    /\ \A i \in DOMAIN value : value[i] \notin {"{", "}"}
    /\ Patterns(value) = {}

\* Replacing one variable after the other is replacing them at once, where no
\* value holds a brace or a pattern of String.replace and the template has no
\* braces but those of its placeholders.  Otherwise values are looked into:
\* {{x}} {{y}} with {{y}} for x is {{y}} {{y}} by the time y is replaced, and
\* so are {{{x}}} {{y}} with {y} for x, and {{{{x}}}} {{y}} with y for x.
RenderedAtOnce ==
    /\ Tidy(template)
    /\ \A name \in DOMAIN inputs : Plain(inputs[name])
    /\ remaining = <<>>
    => rendered = Substituted(template)
=============================================================================
