---------------------------- MODULE ValuesParser ----------------------------
(***************************************************************************)
(* How ied_mms_server.c finds its way in the text of a values file.  It    *)
(* does not parse JSON: a section is found by the first occurrence of its  *)
(* name in quotes, wherever that is, then the first opening brace after    *)
(* it, then the brace that closes it, counting those inside strings too.   *)
(*                                                                         *)
(* A text is a sequence of tokens: the braces, a key (the name of a        *)
(* section, or of the stamp with its number) and an entry (a tag with its  *)
(* value).  The punctuation between them, which the launcher always writes,*)
(* is left out.  A reader may hold only the first tokens of a text; a      *)
(* token cut in half is as good as missing, but for the digits of the      *)
(* stamp.  Names are sequences, as tags are their parts between dots.      *)
(***************************************************************************)
EXTENDS Integers, Sequences, FiniteSetsExt

CONSTANT Braced  \* the tags with an opening brace in them

SectionNames == <<"analogs", "bools", "words">>
StampName == <<"updated_unix_ms">>

\* A token; entries have the section the launcher keeps them in and their
\* position among the tags of the row.
Token(kind, name, section, pos) ==
  [kind |-> kind, name |-> name, section |-> section, pos |-> pos]

Brace(kind) == Token(kind, <<>>, "", 0)

\* The text for tags, the first e[1] of which are analogs, those after it up to
\* e[2] bools, and those up to e[3] words.
Section(tags, s, first, end) ==
  <<Token("key", <<SectionNames[s]>>, "", 0), Brace("open")>>
  \o [k \in 1..(end - first + 1) |->
        Token("entry", tags[first + k - 1], SectionNames[s], first + k - 1)]
  \o <<Brace("close")>>

TextOf(tags, e) ==
  <<Brace("open")>>
  \o Section(tags, 1, 1, e[1])
  \o Section(tags, 2, e[1] + 1, e[2])
  \o Section(tags, 3, e[2] + 1, e[3])
  \o <<Token("key", StampName, "", 0), Brace("close")>>

\* The least of a set of positions, if there is one: strstr, strchr.
First(S) == {i \in S : \A j \in S : i <= j}

IsOpen(t) == t.kind = "open" \/ t.name \in Braced
IsClose(t) == t.kind = "close"

Opening(text, i, j) == {k \in i..j : IsOpen(text[k])}
Closing(text, i, j) == {k \in i..j : IsClose(text[k])}

\* In what follows text is looked at up to its token len.

\* Where the brace opened at i is closed: find_matching_brace.
ClosedAt(text, len, i) ==
  First({j \in i..len :
           IsClose(text[j]) /\ Cardinality(Opening(text, i, j)) = Cardinality(Closing(text, i, j))})

\* Where the name s stands first, and the first brace opened after it.
NamedAt(text, len, s) == First({i \in 1..len : text[i].name = <<s>>})
OpenedAt(text, len, s) ==
  UNION {First({i \in n..len : IsOpen(text[i])}) : n \in NamedAt(text, len, s)}

\* What a section is read from, if it is found: the tokens from begin up to, and
\* without, end.  A brace inside a tag leaves the reader in a string.
Bounds(text, len, s) ==
  UNION {{[begin |-> o + 1, end |-> c, inString |-> text[o].kind = "entry"]
            : c \in ClosedAt(text, len, o)}
            : o \in OpenedAt(text, len, s)}

\* strtof and strtol take numbers, the comparison of handle_bool_entry the
\* words true and false.
Accepts(s, t) == (s = "bools") <=> (t = "bools")

\* Where the stamp is looked for: its name may be a tag as well.
StampAt(text, len) == First({i \in 1..len : text[i].name = StampName})

=============================================================================
