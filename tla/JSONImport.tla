------------------------------ MODULE JSONImport -------------------------------
(***************************************************************************)
(* The preview of a JSON inventory.  Before the document is decoded, depth *)
(* scans its bytes for the nesting of brackets, so that the decoder never  *)
(* recurses too far.  The texts are generated from JSON's grammar together *)
(* with their nesting, which is what the scan is checked against: brackets *)
(* in strings do not nest, nor do escaped quotes end a string.             *)
(***************************************************************************)
EXTENDS Naturals, Sequences

CONSTANTS
    MaxDepth,
    MaxItems,
    Quote, Escape, Open, Close, Other    \* the bytes the scan tells apart

VARIABLES
    text, nesting,          \* the bytes, and how deep the document is
    pos, d, max, in, esc,   \* the scan
    outcome                 \* "scanning", "large", "deep", "scanned", "refused" or "ok"

scan == <<pos, d, max, in, esc>>
vars == <<text, nesting, scan, outcome>>

-----------------------------------------------------------------------------
Units == {<<Other>>, <<Open>>, <<Close>>, <<Escape, Quote>>, <<Escape, Escape>>}
Quoted(s) == <<Quote>> \o s \o <<Quote>>

Words == {Quoted(<< >>)} \cup {Quoted(u) : u \in Units}
Leaves == {<<Other>>} \cup Words \cup {Quoted(u[1] \o u[2]) : u \in Units \X Units}

(* Texts of the documents of a depth: an object or array of two values,    *)
(* the deeper one first.                                                   *)
Around(texts) ==
    {<<Open>> \o v[1] \o <<Other>> \o v[2] \o <<Close>> : v \in texts \X Words}
    \cup {<<Open>> \o v \o <<Close>> : v \in texts}

Texts[n \in Nat] == IF n = 0 THEN Leaves ELSE Around(Texts[n - 1])

Init ==
    /\ nesting \in 0..(MaxDepth + 1)
    /\ text \in Texts[nesting]
    /\ pos = 1 /\ d = 0 /\ max = 0
    /\ in = FALSE /\ esc = FALSE
    /\ outcome = "scanning"

-----------------------------------------------------------------------------
(* There are more bytes than MaxBytes: nothing is scanned.                 *)
Oversize ==
    /\ outcome = "scanning" /\ pos = 1
    /\ outcome' = "large"
    /\ UNCHANGED <<text, nesting, scan>>

InStringVariant(c) ==
    /\ in' = (c # Quote)
    /\ esc' = FALSE
    /\ UNCHANGED <<d, max>>

InString(c) ==
    /\ esc' = (~esc /\ c = Escape)
    /\ in' = (esc \/ c # Quote)
    /\ UNCHANGED <<d, max>>

Outside(c) ==
    /\ in' = (c = Quote)
    /\ d' = IF c = Open THEN d + 1 ELSE IF c = Close THEN d - 1 ELSE d
    /\ max' = IF d' > max THEN d' ELSE max
    /\ UNCHANGED esc

Scan ==
    /\ outcome = "scanning" /\ pos <= Len(text)
    /\ IF in THEN InString(text[pos]) ELSE Outside(text[pos])
    /\ pos' = pos + 1
    /\ UNCHANGED <<text, nesting, outcome>>

Limit ==
    /\ outcome = "scanning" /\ pos > Len(text)
    /\ outcome' = IF max > MaxDepth THEN "deep" ELSE "scanned"
    /\ UNCHANGED <<text, nesting, scan>>

(* Decoding, and the checks of what was decoded.  A document of the wrong  *)
(* shape, with an unknown field, an asset without an externalId or of an   *)
(* unknown type is refused; so is one with more than MaxItems items.       *)
Decode(wellFormed, items) ==
    /\ outcome = "scanned"
    /\ outcome' = IF wellFormed /\ items <= MaxItems THEN "ok" ELSE "refused"
    /\ UNCHANGED <<text, nesting, scan>>

Next == Oversize \/ Scan \/ Limit \/ \E w \in BOOLEAN, i \in 0..(MaxItems + 1) : Decode(w, i)

Spec == Init /\ [][Next]_vars

=============================================================================
