----------------------------- MODULE Redaction -----------------------------
(***************************************************************************)
(* What the redactor makes of one line (redact.rs).                        *)
(*                                                                         *)
(* A line is a sequence of items: delimiters, and the words between them.  *)
(* A word has a kind (what its characters look like), an identity, and     *)
(* what it ends in: nothing, one of the two characters that may be         *)
(* punctuation and are no delimiters, or a port.  The redactor is the      *)
(* sequence of the values it has named, in order; a value's number counts  *)
(* those of its category up to it.                                         *)
(*                                                                         *)
(* What a pass hides depends on its line alone: it marks the pieces of the *)
(* line, and the redactor then names the hidden ones from left to right.   *)
(*                                                                         *)
(* A definition that carries another's name and a suffix is that operation *)
(* with a slip in it, kept to show that the properties notice the slip.    *)
(***************************************************************************)
EXTENDS Scan, FiniteSets

Delim == {"space", "slash", "at", "lt", "gt", "eq"}
Shaped == {"ipv4", "ipv6", "peer", "enr", "pubkey", "address"}
Anchor == {"graffiti", "validator", "host"}
Kinds  == Delim \cup Shaped \cup Anchor
            \cup {"root", "digits", "opaque", "scheme", "home", "plain", "name", "port"}
Tails  == {"", ":", ".", "port"}
Category == Anchor \cup {"ip", "peer", "enr", "pubkey", "address", "user", "secret"}

Item(kind, id, n, tail) == [kind |-> kind, id |-> id, n |-> n, tail |-> tail]
Mark(d)    == Item(d, "", 0, "")
Port       == Item("port", "", 0, "")
IsWord(x)  == x.kind \notin Delim
Is(l, k, kind) == k \in DOMAIN l /\ l[k].kind = kind

-----------------------------------------------------------------------------
Named(r, cat, value) == \E k \in DOMAIN r : r[k] = <<cat, value>>

Number(r, cat, value) ==
  Cardinality({k \in DOMAIN r : r[k][1] = cat
                 /\ \E j \in k..Len(r) : r[j] = <<cat, value>>})

Token_each_time(r, cat, value) == Append(r, <<cat, value>>)
Token(r, cat, value) == IF Named(r, cat, value) THEN r ELSE Append(r, <<cat, value>>)

(* The placeholder: its two brackets are delimiters, its name is a word.   *)
Placeholder(r, cat, value) == <<Mark("lt"), Item("name", cat, Number(r, cat, value), ""), Mark("gt")>>

-----------------------------------------------------------------------------
(* A piece of a line: kept, or a value of a category to hide, and what is  *)
(* kept right after it.                                                    *)
Hidden(cat, value, rest) == [cat |-> cat, value |-> value, rest |-> rest]
Kept(items)              == Hidden("none", <<>>, items)

(* The values named before the first piece, and after the first k.         *)
Registry(r, pieces) ==
  LET reg[k \in 0..Len(pieces)] ==
        IF k = 0 THEN r
        ELSE IF pieces[k].cat = "none" THEN reg[k - 1]
        ELSE Token(reg[k - 1], pieces[k].cat, pieces[k].value)
  IN reg

Redacted(r, piece) ==
  IF piece.cat = "none" THEN piece.rest
  ELSE Placeholder(r, piece.cat, piece.value) \o piece.rest

WriteOut(r, pieces) ==
  LET reg == Registry(r, pieces)
      n   == Len(pieces)
  IN [r   |-> reg[n],
      out |-> Walk(n, [k \in 1..n |-> Redacted(reg[k], pieces[k])], [k \in 1..n |-> k + 1])[1]]

-----------------------------------------------------------------------------
(* 0x and hex: a pubkey and an address have lengths of their own, any other *)
(* length is a root's.                                                     *)
HexShape_any_length(w) == IF w.kind = "address" THEN "address" ELSE "pubkey"
HexShape(w) == IF w.kind = "root" THEN "none" ELSE w.kind

(* What a token is by itself.  A dot or a colon at its end makes it        *)
(* another token, except to the two that are not compared whole.           *)
ShapeOf(w) ==
  CASE w.kind = "enr"                                       -> "enr"
    [] w.kind = "ipv4" /\ w.tail = ""                       -> "ip"
    [] w.kind = "ipv6" /\ w.tail \in {"", ":"}              -> "ip"
    [] w.kind = "peer" /\ w.tail = ""                       -> "peer"
    [] w.kind \in {"pubkey", "address", "root"} /\ w.tail = "" -> HexShape(w)
    [] OTHER                                                -> "none"

AnchorKey(w) == IF w.tail = "port" THEN "none" ELSE w.kind

Digits(w) == w.kind = "digits" /\ w.tail = ""

Anchored(w, prev) ==
  CASE prev = "graffiti"                 -> "graffiti"
    [] prev = "validator" /\ Digits(w)   -> "validator"
    [] prev = "host" /\ ~Digits(w)       -> "host"
    [] OTHER                             -> "none"

(* An address in front of a port is hidden, the port is not.               *)
HostOf_never(w) == <<>>
HostOf(w) == IF w.kind = "ipv4" /\ w.tail = "port" THEN <<[w EXCEPT !.tail = ""]>> ELSE <<>>

(* The word before, the first of a line has none.                          *)
Prev(l, k) ==
  LET words == {j \in 1..(k - 1) : IsWord(l[j])}
  IN IF words = {} THEN "none" ELSE AnchorKey(l[CHOOSE j \in words : \A i \in words : i <= j])

ReplaceToken(w, prev) ==
  LET category == IF ShapeOf(w) # "none" THEN ShapeOf(w) ELSE Anchored(w, prev) IN
  IF HostOf(w) # <<>> THEN Hidden("ip", HostOf(w), <<Port>>)
  ELSE IF category = "none" THEN Kept(<<w>>)
  ELSE Hidden(category, <<w>>, <<>>)

(* redact_tokens                                                           *)
TokenPieces(l) ==
  [k \in 1..Len(l) |-> IF IsWord(l[k]) THEN ReplaceToken(l[k], Prev(l, k)) ELSE Kept(<<l[k]>>)]

-----------------------------------------------------------------------------
(* redact_home_paths: the segment after /home/ or /Users/.                 *)
HomeAt(l, k) ==
  /\ Is(l, k, "slash") /\ Is(l, k + 1, "home") /\ l[k + 1].tail = "" /\ Is(l, k + 2, "slash")
  /\ k + 3 \in DOMAIN l /\ IsWord(l[k + 3])

HomeMarks(l, k) ==
  IF HomeAt(l, k) THEN <<Kept(SubSeq(l, k, k + 2)), Hidden("user", <<l[k + 3]>>, <<>>)>>
  ELSE <<Kept(<<l[k]>>)>>

HomePieces(l) ==
  Walk(Len(l), [k \in 1..Len(l) |-> HomeMarks(l, k)],
       [k \in 1..Len(l) |-> IF HomeAt(l, k) THEN k + 4 ELSE k + 1])[1]

(* redact_urls: where a URL begins, where it and its authority end, and    *)
(* the @ that ends the userinfo, the last one of the authority.            *)
UrlAt(l, k) ==
  /\ k \in DOMAIN l /\ IsWord(l[k]) /\ l[k].tail = ":"
  /\ Is(l, k + 1, "slash") /\ Is(l, k + 2, "slash")

FirstFrom(l, from, kinds) ==
  CHOOSE k \in from..(Len(l) + 1) :
    /\ k = Len(l) + 1 \/ l[k].kind \in kinds
    /\ \A j \in from..(k - 1) : l[j].kind \notin kinds

UrlEnd(l, k)  == FirstFrom(l, k + 3, {"space", "lt", "gt"})
AuthEnd(l, k) == FirstFrom(l, k + 3, {"slash", "space", "lt", "gt"})
Userinfo(l, k) ==
  LET ats == {j \in (k + 3)..(AuthEnd(l, k) - 1) : l[j].kind = "at"}
  IN IF ats = {} THEN <<>>
     ELSE SubSeq(l, k + 3, (CHOOSE j \in ats : \A i \in ats : i <= j) - 1)

IsOpaqueSecret(l, k) ==
  /\ Is(l, k, "opaque") /\ l[k].tail = ""
  /\ Is(l, k - 1, "slash")
  /\ k + 1 \notin DOMAIN l \/ l[k + 1].kind \in {"slash", "space", "lt", "gt"}

(* redact_one_url: what is in front of the @, and the opaque segments of   *)
(* the path.                                                               *)
RedactOneUrl(l, k) ==
  LET user    == Userinfo(l, k)
      from    == k + 3 + Len(user)
      part(j) == IF j > AuthEnd(l, k) /\ IsOpaqueSecret(l, j)
                 THEN Hidden("secret", <<l[j]>>, <<>>) ELSE Kept(<<l[j]>>)
  IN <<Kept(SubSeq(l, k, k + 2))>>
       \o (IF user = <<>> THEN <<>> ELSE <<Hidden("secret", user, <<>>)>>)
       \o [i \in 1..(UrlEnd(l, k) - from) |-> part(from + i - 1)]

UrlPieces(l) ==
  Walk(Len(l), [k \in 1..Len(l) |-> IF UrlAt(l, k) THEN RedactOneUrl(l, k) ELSE <<Kept(<<l[k]>>)>>],
       [k \in 1..Len(l) |-> IF UrlAt(l, k) THEN UrlEnd(l, k) ELSE k + 1])[1]

(* URLs first, then home paths, then the tokens.                           *)
Redact(r, l) ==
  LET urls   == WriteOut(r, UrlPieces(l))
      homes  == WriteOut(urls.r, HomePieces(urls.out))
      tokens == WriteOut(homes.r, TokenPieces(homes.out))
  IN [r |-> tokens.r, line |-> tokens.out]

-----------------------------------------------------------------------------
(* The line a reader who knows every name would write back.                *)
IsName(l, k) ==
  /\ Is(l, k, "lt") /\ Is(l, k + 1, "name") /\ Is(l, k + 2, "gt")
  /\ l[k + 1].n > 0

Meaning(r, name) ==
  LET k == CHOOSE k \in DOMAIN r : r[k][1] = name.id /\ Number(r, r[k][1], r[k][2]) = name.n
  IN r[k][2]

Restored(r, l) ==
  LET port(k)  == Is(l, k + 3, "port")
      meant(k) == LET v == Meaning(r, l[k + 1])
                  IN IF port(k) THEN [v EXCEPT ![Len(v)].tail = "port"] ELSE v
  IN Walk(Len(l), [k \in DOMAIN l |-> IF IsName(l, k) THEN meant(k) ELSE <<l[k]>>],
          [k \in DOMAIN l |-> IF ~IsName(l, k) THEN k + 1 ELSE IF port(k) THEN k + 4 ELSE k + 3])[1]

=============================================================================
