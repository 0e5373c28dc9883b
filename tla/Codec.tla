-------------------------------- MODULE Codec --------------------------------
(***************************************************************************)
(* codec/: the CBOR, Protocol Buffers and JSON writers and readers, and    *)
(* the two messages of net/ that are built and taken apart by options: a   *)
(* CoAP message and MQTT's CONNECT.  A behaviour uses one format: `w` is   *)
(* the writer over a caller's buffer, whose length stands for pos, and     *)
(* `doc` what was written without an error.  The readers are operators on  *)
(* the buffer.  A value is below 2^31, and a JSON number of IntBits bits;  *)
(* bytes are bytes.                                                        *)
(***************************************************************************)
EXTENDS Integers, Sequences, FiniteSets, SequencesExt, FiniteSetsExt

CONSTANTS Items,           \* what is written, a set of records
          Caps, MaxItems,  \* capacities of the buffer; bound on the exploration
          MAX_DEPTH, IntBits,
          MAX_TOKEN_LEN, MAX_URI_PATH, MAX_STRING, TX_BUF_SIZE
VARIABLES w, doc
vars == <<w, doc>>

Writer(cap) == [buf |-> <<>>, cap |-> cap, rc |-> "ok"]
Init == (\E cap \in Caps : w = Writer(cap)) /\ doc = <<>>

\* Bytes written all or none, and as many as fit; after an error nothing more.
Put(k, bytes) ==
  IF k.rc # "ok" THEN k
  ELSE IF Len(k.buf) + Len(bytes) > k.cap THEN [k EXCEPT !.rc = "overflow"] ELSE [k EXCEPT !.buf = @ \o bytes]
Emit(k, bytes) == FoldLeft(LAMBDA x, b : Put(x, <<b>>), k, bytes)
Call(k) == [k EXCEPT !.rc = "ok"]
Writes(k, item) ==
  /\ Len(doc) < MaxItems
  /\ w' = k
  /\ doc' = IF k.rc = "ok" THEN Append(doc, item) ELSE doc

Big(v, n) == [i \in 1..n |-> (v \div 256^(n - i)) % 256]      \* most significant byte first
Number(bytes) == FoldLeft(LAMBDA v, b : v * 256 + b, 0, bytes)
Read(rc, val, next) == [rc |-> rc, val |-> val, next |-> next]
Fails(rc, pos) == Read(rc, 0, pos)

(***************************************************************************)
(* CBOR.                                                                   *)
(***************************************************************************)
Major(t) ==
  CASE t \in {"uint", "int"} -> 0 [] t = "negint" -> 1 [] t = "bstr" -> 2 [] t = "tstr" -> 3
    [] t = "array" -> 4 [] t = "map" -> 5 [] t \in {"bool", "null"} -> 7

head_size(v) == IF v <= 23 THEN 1 ELSE IF v <= 255 THEN 2 ELSE IF v <= 65535 THEN 3 ELSE 5
write_head(major, v) ==
  LET n == head_size(v) - 1
      ai == CASE n = 0 -> v [] n = 1 -> 24 [] n = 2 -> 25 [] n = 4 -> 26
  IN <<major * 32 + ai>> \o Big(v, n)

\* A string's head and bytes are written together or not at all.
Encoded(item) ==
  CASE item.t \in {"bstr", "tstr"} -> write_head(Major(item.t), Len(item.s)) \o item.s
    [] item.t = "int" /\ item.v < 0 -> write_head(1, -(item.v + 1))
    [] item.t = "bool" -> write_head(7, 20 + item.v)
    [] item.t = "null" -> write_head(7, 22)
    [] OTHER -> write_head(Major(item.t), item.v)
CborEncode(item) == Writes(Put(Call(w), Encoded(item)), item)

\* The bytes of a long value must all be there.
read_head(buf, pos) ==
  LET avail == Len(buf) - pos
      ib == buf[pos + 1]
      ai == ib % 32
      n == CASE ai <= 23 -> 0 [] ai = 24 -> 1 [] ai = 25 -> 2 [] OTHER -> 4
      value == IF n = 0 THEN ai ELSE Number(SubSeq(buf, pos + 2, pos + 1 + n))
  IN IF avail = 0 THEN [rc |-> "underflow"]
     ELSE IF ai > 26 THEN [rc |-> "corrupt"]
     ELSE IF avail < 1 + n THEN [rc |-> "underflow"]
     ELSE [rc |-> "ok", major |-> ib \div 32, value |-> value, next |-> pos + 1 + n]

\* What stands behind the head h of each type; one that fails there leaves the
\* reader behind the head.
decode_int(h) == Read("ok", IF h.major = 0 THEN h.value ELSE -1 - h.value, h.next)
decode_tstr(buf, h) ==
  IF h.value > 65535 THEN Fails("corrupt", h.next)
  ELSE IF h.next + h.value > Len(buf) THEN Fails("underflow", h.next)
  ELSE Read("ok", SubSeq(buf, h.next + 1, h.next + h.value), h.next + h.value)
decode_array(h) == IF h.value > 65535 THEN Fails("corrupt", h.next) ELSE Read("ok", h.value, h.next)
decode_bool(h) == IF h.value \in {20, 21} THEN Read("ok", h.value - 20, h.next) ELSE Fails("type", h.next)
decode_null(h) == IF h.value = 22 THEN Read("ok", 0, h.next) ELSE Fails("type", h.next)
\* A read of the wrong type leaves the reader where it is.
decode(buf, pos, t) ==
  LET h == read_head(buf, pos)
  IN CASE h.rc # "ok" -> Fails(h.rc, pos)
       [] h.rc = "ok" /\ t = "int" /\ h.major \in {0, 1} -> decode_int(h)
       [] h.rc = "ok" /\ t # "int" /\ h.major = Major(t) ->
            CASE t \in {"bstr", "tstr"} -> decode_tstr(buf, h)
              [] t \in {"array", "map"} -> decode_array(h)
              [] t = "bool" -> decode_bool(h)
              [] t = "null" -> decode_null(h)
              [] OTHER -> Read("ok", h.value, h.next)
       [] OTHER -> Fails("type", pos)

RECURSIVE skip(_, _), skip_all(_, _, _)
skip(buf, pos) ==
  LET h == read_head(buf, pos)
  IN CASE h.rc # "ok" -> Fails(h.rc, pos)
       [] h.rc = "ok" /\ h.major \in {2, 3} ->
            IF h.value > 65535 \/ h.next + h.value > Len(buf) THEN Fails("underflow", h.next)
            ELSE Read("ok", 0, h.next + h.value)
       [] h.rc = "ok" /\ h.major = 4 -> skip_all(buf, h.next, h.value)
       [] h.rc = "ok" /\ h.major = 5 -> skip_all(buf, h.next, 2 * h.value)
       [] h.rc = "ok" /\ h.major = 6 -> Fails("corrupt", h.next)
       [] OTHER -> Read("ok", 0, h.next)
skip_all(buf, pos, n) ==
  IF n = 0 THEN Read("ok", 0, pos)
  ELSE LET r == skip(buf, pos) IN IF r.rc = "ok" THEN skip_all(buf, r.next, n - 1) ELSE r

CborNext == \E item \in Items : CborEncode(item)

(***************************************************************************)
(* Protocol Buffers.                                                       *)
(***************************************************************************)
Wire(t) == CASE t \in {"uint32", "sint32", "bool"} -> 0 [] t \in {"string", "bytes", "sub"} -> 2 [] t = "fixed32" -> 5
RECURSIVE Varint(_)
Varint(v) == IF v > 127 THEN <<128 + (v % 128)>> \o Varint(v \div 128) ELSE <<v>>
Zigzag(v) == IF v >= 0 THEN 2 * v ELSE -2 * v - 1
Unzigzag(v) == IF v % 2 = 0 THEN v \div 2 ELSE -((v + 1) \div 2)

FieldValue(item) ==
  CASE item.t = "sint32" -> Varint(Zigzag(item.v))
    [] item.t \in {"uint32", "bool"} -> Varint(item.v)
    [] item.t = "fixed32" -> Reverse(Big(item.v, 4))
    [] OTHER -> Varint(Len(item.s)) \o item.s
\* A tag stays in the buffer when its value finds no room behind it.
FieldEncode(item) ==
  LET tagged == Put(Call(w), Varint(item.f * 8 + Wire(item.t)))
  IN IF item.f = 0 THEN Writes([w EXCEPT !.rc = "param"], item) ELSE Writes(Put(tagged, FieldValue(item)), item)

\* At most six bytes are looked at.
decode_varint(buf, pos) ==
  LET ends == {i \in pos + 1..Len(buf) : buf[i] < 128}
      last == Min(ends)
      digits == [i \in 1..last - pos |-> buf[last + 1 - i] % 128]
  IN IF \E i \in pos + 1..Len(buf) : i = pos + 6 /\ \A j \in pos + 1..i - 1 : buf[j] >= 128
    THEN Fails("corrupt", pos + 6)
     ELSE IF ends = {} THEN Fails("underflow", Len(buf))
     ELSE Read("ok", FoldLeft(LAMBDA v, b : v * 128 + b, 0, digits), last)
decode_bytes(buf, pos) ==
  LET n == decode_varint(buf, pos)
  IN IF n.rc # "ok" THEN n
     ELSE IF n.val > 65535 THEN Fails("corrupt", n.next)
     ELSE IF n.next + n.val > Len(buf) THEN Fails("underflow", n.next)
     ELSE Read("ok", SubSeq(buf, n.next + 1, n.next + n.val), n.next + n.val)
decode_fixed32(buf, pos) ==
  IF pos + 4 > Len(buf) THEN Fails("underflow", pos)
  ELSE Read("ok", Number(Reverse(SubSeq(buf, pos + 1, pos + 4))), pos + 4)
decode_tag(buf, pos) ==
  LET t == decode_varint(buf, pos)
  IN IF t.rc = "ok" /\ t.val \div 8 = 0 THEN Fails("corrupt", t.next) ELSE t
skip_field(buf, pos, wire) ==
  CASE wire = 0 -> decode_varint(buf, pos)
    [] wire = 5 -> decode_fixed32(buf, pos)
    [] wire = 2 -> decode_bytes(buf, pos)
    [] wire = 1 -> IF pos + 8 > Len(buf) THEN Fails("underflow", pos) ELSE Read("ok", 0, pos + 8)
    [] OTHER -> Fails("corrupt", pos)
\* What an application does with a field of type t.
Value(buf, pos, t) ==
  LET r == skip_field(buf, pos, Wire(t)) IN IF t = "sint32" THEN [r EXCEPT !.val = Unzigzag(@)] ELSE r

\* The tag left behind would be read with the next field: the caller stops.
FieldNext == w.rc # "overflow" /\ \E item \in Items : FieldEncode(item)

(***************************************************************************)
(* JSON.  A character is its code.  `w` has the commas that are due, by    *)
(* depth; `doc` is the containers that are open, with what each holds, and *)
(* the tokens a reader should see.                                         *)
(***************************************************************************)
QUOTE == 34
COMMA == 44
COLON == 58
BACKSLASH == 92
Word(b) == CASE b = "true" -> <<116, 114, 117, 101>> [] b = "false" -> <<102, 97, 108, 115, 101>>
             [] b = "null" -> <<110, 117, 108, 108>>

hex_digit(n) == IF n < 10 THEN 48 + n ELSE 87 + n
Escape(c) ==
  CASE c \in {QUOTE, BACKSLASH} -> <<BACKSLASH, c>>
    [] c = 10 -> <<BACKSLASH, 110>> [] c = 13 -> <<BACKSLASH, 114>> [] c = 9 -> <<BACKSLASH, 116>>
    [] c < 32 /\ c \notin {9, 10, 13} -> <<BACKSLASH, 117, 48, 48, hex_digit(c \div 16), hex_digit(c % 16)>>
    [] OTHER -> <<c>>
Escaped(s) == FoldLeft(LAMBDA out, c : out \o Escape(c), <<>>, s)
emit_escaped(k, s) ==
  FoldLeft(LAMBDA x, c : IF Len(Escape(c)) = 6 THEN Put(x, Escape(c)) ELSE Emit(x, Escape(c)), k, s)
RECURSIVE Digits(_)
Digits(v) == IF v > 9 THEN Append(Digits(v \div 10), 48 + (v % 10)) ELSE <<48 + v>>
int32_to_str(v) == IF v < 0 THEN <<45>> \o Digits(-v) ELSE Digits(v)

JsonInit ==
  /\ \E cap \in Caps : w = [buf |-> <<>>, cap |-> cap, rc |-> "ok", depth |-> 0,
       need_comma |-> [i \in 1..MAX_DEPTH |-> FALSE]]
  /\ doc = [open |-> <<>>, key |-> FALSE, toks |-> <<>>, n |-> 0]

\* The comma that is due, and the mark that one is due next time.
Due(k) == k.depth > 0 /\ k.need_comma[k.depth]
Marked(k, b) == IF k.depth > 0 /\ k.rc = "ok" THEN [k EXCEPT !.need_comma[k.depth] = b] ELSE k
emit_separator(k) == Marked(IF Due(k) THEN Emit(k, <<COMMA>>) ELSE k, TRUE)

OpensWith(k, c) ==
  LET e == Emit(emit_separator(k), <<c>>)
  IN IF k.depth >= MAX_DEPTH THEN [k EXCEPT !.rc = "param"]
     ELSE IF e.rc # "ok" THEN e ELSE [e EXCEPT !.need_comma[e.depth + 1] = FALSE, !.depth = @ + 1]
ClosesWith(k, c) == IF k.depth = 0 THEN [k EXCEPT !.rc = "param"] ELSE Emit([k EXCEPT !.depth = @ - 1], <<c>>)
write_key(k, s) ==
  LET quoted == Emit(IF Due(k) THEN Emit(k, <<COMMA>>) ELSE k, <<QUOTE>>)
  IN Marked(Emit(emit_escaped(quoted, s), <<QUOTE, COLON>>), FALSE)
write_str(k, s) == Emit(emit_escaped(Emit(emit_separator(k), <<QUOTE>>), s), <<QUOTE>>)
write_word(k, b) == Put(emit_separator(k), Word(b))
write_int(k, v) == Put(emit_separator(k), int32_to_str(v))

\* The call writes as k says, and a reader should then see the tokens given; open
\* are the containers it leaves open.
Adds(k, toks, open, key) ==
  /\ doc.n < MaxItems
  /\ w' = k
  /\ doc' = IF k.rc = "ok" THEN [open |-> open, key |-> key, toks |-> doc.toks \o toks, n |-> doc.n + 1]
       ELSE [doc EXCEPT !.n = MaxItems]
Within == Len(doc.open)
Counted == IF Within = 0 THEN <<>> ELSE [doc.open EXCEPT ![Within].n = @ + 1]
Comma == IF Within > 0 /\ ~doc.key /\ doc.open[Within].n > 0 THEN <<<<"comma">>>> ELSE <<>>
\* The calls a well-formed document is made of, up to the first that fails.
MayValue == IF Within = 0 THEN doc.toks = <<>> ELSE doc.open[Within].c = 91 \/ doc.key
MayKey == Within > 0 /\ doc.open[Within].c = 123 /\ ~doc.key

JsonOpen == \E c \in {91, 123} :
  MayValue /\ Adds(OpensWith(Call(w), c), Comma \o <<<<"mark", c>>>>, Append(Counted, [c |-> c, n |-> 0]), FALSE)
JsonClose ==
  /\ Within > 0 /\ ~doc.key
  /\ LET c == doc.open[Within].c + 2 IN Adds(ClosesWith(Call(w), c), <<<<"mark", c>>>>, Front(doc.open), FALSE)
JsonKey == \E item \in Items :
  /\ MayKey /\ item.t = "str"
  /\ Adds(write_key(Call(w), item.s), Comma \o <<<<"str", Escaped(item.s)>>, <<"colon">>>>, doc.open, TRUE)
JsonValue == \E item \in Items :
  /\ MayValue
  /\ LET k == CASE item.t = "str" -> write_str(Call(w), item.s)
                [] item.t = "int" -> write_int(Call(w), item.v)
                [] item.t = "word" -> write_word(Call(w), item.b)
         tok == CASE item.t = "str" -> <<"str", Escaped(item.s)>> [] item.t = "int" -> <<"int", item.v>>
                  [] item.t = "word" -> <<item.b>>
     IN Adds(k, Comma \o <<tok>>, Counted, FALSE)
JsonNext == JsonOpen \/ JsonClose \/ JsonKey \/ JsonValue

\* parse_string: up to a quote that no backslash stands before.
RECURSIVE StringEnd(_, _)
StringEnd(buf, i) ==
  IF i > Len(buf) THEN Fails("underflow", i)
  ELSE IF buf[i] = QUOTE THEN Read("ok", 0, i)
  ELSE IF buf[i] # BACKSLASH THEN StringEnd(buf, i + 1)
  ELSE IF i = Len(buf) THEN Fails("corrupt", i) ELSE StringEnd(buf, i + 2)
\* parse_number: the digits, in a word that wraps.
parse_number(buf, i) ==
  LET from == IF buf[i] = 45 THEN i + 1 ELSE i
      digits == {j \in from..Len(buf) : \A x \in from..j : buf[x] \in 48..57}
      accum == FoldLeft(LAMBDA v, c : (v * 10 + c - 48) % 2^IntBits, 0,
        SubSeq(buf, from, from + Cardinality(digits) - 1))
      signed(v) == IF v >= 2^(IntBits - 1) THEN v - 2^IntBits ELSE v
  IN IF digits = {} THEN Fails(<<"corrupt">>, from)
     ELSE Read(<<"int", signed(IF from > i THEN (2^IntBits - accum) % 2^IntBits ELSE accum)>>, 0,
       from + Cardinality(digits))
match_keyword(buf, i, b) ==
  IF SubSeq(buf, i, i + Len(Word(b)) - 1) = Word(b) THEN Read(<<b>>, 0, i + Len(Word(b))) ELSE Fails(<<"corrupt">>, i)

\* One token from index i; the white space before it is passed over.
next_token(buf, from) ==
  LET i == Min({j \in from..Len(buf) + 1 : j > Len(buf) \/ buf[j] \notin {9, 10, 13, 32}})
      c == buf[i]
      string == StringEnd(buf, i + 1)
  IN CASE i > Len(buf) -> Read(<<"end">>, 0, i)
       [] i <= Len(buf) /\ c \in {91, 93, 123, 125} -> Read(<<"mark", c>>, 0, i + 1)
       [] i <= Len(buf) /\ c = COLON -> Read(<<"colon">>, 0, i + 1)
       [] i <= Len(buf) /\ c = COMMA -> Read(<<"comma">>, 0, i + 1)
       [] i <= Len(buf) /\ c = QUOTE ->
            IF string.rc = "ok" THEN Read(<<"str", SubSeq(buf, i + 1, string.next - 1)>>, 0, string.next + 1)
            ELSE Fails(<<string.rc>>, string.next)
       [] i <= Len(buf) /\ c \in {116, 102, 110} ->
            match_keyword(buf, i, CASE c = 116 -> "true" [] c = 102 -> "false" [] c = 110 -> "null")
       [] i <= Len(buf) /\ c \in {45} \union 48..57 -> parse_number(buf, i)
       [] OTHER -> Fails(<<"corrupt">>, i)
Stops == {<<"end">>, <<"underflow">>, <<"corrupt">>}
RECURSIVE Tokens(_, _)
Tokens(buf, i) == LET r == next_token(buf, i) IN IF r.rc \in Stops THEN <<>> ELSE <<r.rc>> \o Tokens(buf, r.next)

\* skip_value counts the brackets, of whichever kind.
Marks(chars) == {<<"mark", c>> : c \in chars}
RECURSIVE skip_value(_, _, _)
skip_value(buf, i, depth) ==
  LET r == next_token(buf, i)
      now == depth + (CASE r.rc \in Marks({91, 123}) -> 1 [] r.rc \in Marks({93, 125}) -> -1 [] OTHER -> 0)
  IN CASE r.rc \in Stops -> Fails(IF r.rc = <<"end">> THEN "underflow" ELSE r.rc[1], r.next)
       [] r.rc \notin Stops /\ depth = 0
            /\ r.rc \in Marks({93, 125}) \union {<<"colon">>, <<"comma">>} -> Fails("corrupt", r.next)
       [] OTHER -> IF now = 0 THEN Read("ok", 0, r.next) ELSE skip_value(buf, r.next, now)

(***************************************************************************)
(* CoAP: coap_build for what this program sends, encode_option also for    *)
(* what others send, with options and tokens it never writes; coap_parse   *)
(* for both.                                                               *)
(***************************************************************************)
SLASH == 47
MARKER == 255
URI_PATH == 11
CONTENT_FMT == 12

\* A number of a header's nibble, and the bytes behind the header it needs.
Nibble(n) == IF n < 13 THEN <<n, <<>>>> ELSE IF n < 269 THEN <<13, <<n - 13>>>> ELSE <<14, Big(n - 269, 2)>>
FirstOf(s, n) == SubSeq(s, 1, Min({n, Len(s)}))
encode_option(k, delta, val) ==
  LET d == Nibble(delta)
      l == Nibble(Len(val))
  IN Put(k, <<16 * d[1] + l[1]>> \o d[2] \o l[2] \o val)
encode_uint(v) == IF v = 0 THEN <<>> ELSE IF v <= 255 THEN <<v>> ELSE Big(v, 2)
Segments(path) ==
  LET starts == {i \in DOMAIN path : path[i] # SLASH /\ (i = 1 \/ path[i - 1] = SLASH)}
      end(i) == Min({j \in i..Len(path) + 1 : j > Len(path) \/ path[j] = SLASH})
  IN [n \in 1..Cardinality(starts) |-> LET i == SetToSortSeq(starts, <)[n] IN SubSeq(path, i, end(i) - 1)]
Header(k, m) == Put(k, <<64 + 16 * m.type + Len(m.token), m.code>> \o Big(m.id, 2) \o m.token)
Payload(k, m) == IF m.payload = <<>> THEN k ELSE Put(k, <<MARKER>> \o m.payload)
coap_build(cap, m) ==
  LET header == Header(Writer(cap), m)
      path == FoldLeft(LAMBDA k, seg : encode_option(k, IF k = header THEN URI_PATH ELSE 0, seg), header,
        Segments(m.path))
      before == IF Segments(m.path) = <<>> THEN 0 ELSE URI_PATH
  IN Payload(IF m.cfmt < 0 THEN path ELSE encode_option(path, CONTENT_FMT - before, encode_uint(m.cfmt)), m)
\* A message of another implementation: `opts` are its options' deltas and values.
Foreign(cap, m) == Payload(FoldLeft(LAMBDA k, o : encode_option(k, o[1], o[2]), Header(Writer(cap), m), m.opts), m)

\* The number a nibble stands for, with the bytes it has behind the header.
extended(buf, pos, nibble) ==
  LET more == CASE nibble = 13 -> 1 [] nibble = 14 -> 2 [] OTHER -> 0
      base == CASE nibble = 13 -> 13 [] nibble = 14 -> 269 [] OTHER -> nibble
  IN IF nibble = 15 \/ pos + more > Len(buf) THEN Fails("corrupt", pos)
     ELSE Read("ok", (Number(SubSeq(buf, pos + 1, pos + more)) + base) % 65536, pos + more)
\* A path is cut at its end, and its first segment too begins with a slash.
TakeOption(msg, num, val) ==
  CASE num = URI_PATH -> [msg EXCEPT !.path = FirstOf(@ \o <<SLASH>> \o val, MAX_URI_PATH)]
    [] num = CONTENT_FMT /\ Len(val) <= 2 ->
         [msg EXCEPT !.cfmt = IF Number(val) >= 32768 THEN Number(val) - 65536 ELSE Number(val)]
    [] OTHER -> msg
Refused == [ok |-> FALSE]
RECURSIVE parse_options(_, _, _, _)
parse_options(buf, pos, num, msg) ==
  LET hdr == buf[pos + 1]
      delta == extended(buf, pos + 1, hdr \div 16)
      size == extended(buf, delta.next, hdr % 16)
      end == size.next + size.val
      n == (num + delta.val) % 65536
  IN IF pos = Len(buf) THEN msg
     ELSE IF hdr = MARKER THEN [msg EXCEPT !.payload = SubSeq(buf, pos + 2, Len(buf))]
     ELSE IF delta.rc # "ok" \/ size.rc # "ok" \/ end > Len(buf) THEN Refused
     ELSE parse_options(buf, end, n, TakeOption(msg, n, SubSeq(buf, size.next + 1, end)))
\* A token that is too long is cut.
coap_parse(buf) ==
  LET tkl == buf[1] % 16
  IN IF Len(buf) < 4 \/ buf[1] \div 64 # 1 \/ tkl > 8 \/ 4 + tkl > Len(buf) THEN Refused
     ELSE parse_options(buf, 4 + tkl, 0,
            [ok |-> TRUE, type |-> (buf[1] \div 16) % 4, code |-> buf[2], id |-> Number(SubSeq(buf, 3, 4)),
             token |-> SubSeq(buf, 5, 4 + Min({tkl, MAX_TOKEN_LEN})), path |-> <<>>, cfmt |-> -1, payload |-> <<>>])

CoapInit == (\E cap \in Caps : w = Writer(cap)) /\ doc = [t |-> "none"]
CoapNext == doc.t = "none" /\ \E m \in Items :
  /\ w' = IF m.t = "sent" THEN coap_build(w.cap, m) ELSE Foreign(w.cap, m)
  /\ doc' = m

(***************************************************************************)
(* MQTT's CONNECT.  `w` are the settings, from which mqtt_send_connect     *)
(* makes the packet; `doc` is what the application has set, `known` and    *)
(* `willed` whether it can say so.                                         *)
(***************************************************************************)
ConnectInit ==
  /\ w = [cid |-> <<>>, user |-> <<>>, pass |-> <<>>, topic |-> <<>>, msg |-> [i \in 1..MAX_STRING |-> 0],
       msg_len |-> 0,
          qos |-> 0, retain |-> 0]
  /\ doc = [known |-> TRUE, cid |-> <<>>, user |-> <<>>, pass |-> <<>>, willed |-> TRUE, will |-> <<>>]
\* What fits is set before the next is looked at.
set_credentials(k, c, u, p) ==
  LET fits(s) == Len(s) <= MAX_STRING
  IN IF ~fits(c) THEN k
     ELSE IF ~fits(u) THEN [k EXCEPT !.cid = c]
     ELSE IF ~fits(p) THEN [k EXCEPT !.cid = c, !.user = u]
     ELSE [k EXCEPT !.cid = c, !.user = u, !.pass = p]
\* Without a message, `given` being FALSE, the bytes of the last one stay.
set_will(k, topic, msg, n, given, qos, retain) ==
  IF topic = <<>> THEN [k EXCEPT !.topic = <<>>, !.msg_len = 0]
  ELSE IF Len(topic) > MAX_STRING \/ n > MAX_STRING THEN k
  ELSE [k EXCEPT !.topic = topic, !.msg_len = n, !.qos = qos, !.retain = retain,
                 !.msg = [i \in DOMAIN @ |-> IF given /\ i <= n THEN msg ELSE @[i]]]
encode_utf8(s) == Big(Len(s), 2) \o s
mqtt_send_connect(k) ==
  LET will == IF k.topic = <<>> THEN <<>> ELSE encode_utf8(k.topic) \o encode_utf8(SubSeq(k.msg, 1, k.msg_len))
      set(s) == IF s = <<>> THEN <<>> ELSE encode_utf8(s)
      flag(s, f) == IF s = <<>> THEN 0 ELSE f
      flags == 2 + flag(k.topic, 4 + 8 * (k.qos % 4) + 32 * k.retain) + flag(k.user, 128) + flag(k.pass, 64)
      body == <<0, 4, 77, 81, 84, 84, 4, flags, 0, 60>> \o encode_utf8(k.cid) \o will \o set(k.user) \o set(k.pass)
  IN IF 3 + Len(body) > TX_BUF_SIZE THEN <<>> ELSE <<16>> \o Varint(Len(body)) \o body

Strings == {<<>>, [i \in 1..MAX_STRING |-> 98], [i \in 1..MAX_STRING + 1 |-> 99]}
ConnectNext ==
  \/ \E c, u, p \in Strings :
       LET all == \A s \in {c, u, p} : Len(s) <= MAX_STRING
       IN /\ w' = set_credentials(w, c, u, p)
          /\ doc' = IF all THEN [doc EXCEPT !.known = TRUE, !.cid = c, !.user = u, !.pass = p]
                    ELSE [doc EXCEPT !.known = doc.known /\ w' = w]
  \/ \E topic \in Strings, msg \in {1, 2}, n \in {0, 2, MAX_STRING + 1}, given \in BOOLEAN, qos, retain \in 0..1 :
       /\ qos # retain
       /\ LET fits == Len(topic) <= MAX_STRING /\ n <= MAX_STRING
          IN /\ w' = set_will(w, topic, msg, n, given, qos, retain)
             /\ doc' = IF topic = <<>> THEN [doc EXCEPT !.willed = TRUE, !.will = <<>>]
                       ELSE IF ~fits THEN doc
                       ELSE [doc EXCEPT !.willed = given \/ n = 0,
                                        !.will = <<topic, [i \in 1..n |-> msg], qos, retain>>]

(***************************************************************************)
(* Properties.                                                             *)
(***************************************************************************)
\* What an item of doc should read as.
Wanted(item) ==
  CASE item.t \in {"bstr", "tstr", "string", "bytes", "sub"} -> item.s [] item.t = "null" -> 0 [] OTHER -> item.v

\* One item after the other, each at the end of the last: where each begins, the
\* end of the last coming last, up to the first that is not read as written.
Starts(buf, ReadItem(_, _, _)) ==
  FoldLeft(LAMBDA at, item :
             LET r == ReadItem(buf, Last(at), item)
             IN IF Last(at) >= 0 /\ r.rc = "ok" /\ r.val = Wanted(item) THEN Append(at, r.next) ELSE Append(at, -1),
           <<0>>, doc)
CborItem(buf, pos, item) == IF pos < 0 THEN Fails("", 0) ELSE decode(buf, pos, item.t)
FieldItem(buf, pos, item) ==
  LET tag == decode_tag(buf, pos)
  IN IF pos < 0 THEN Fails("", 0) ELSE IF tag.rc # "ok" THEN tag ELSE
     IF tag.val # item.f * 8 + Wire(item.t) THEN Fails("tag", 0) ELSE Value(buf, tag.next, item.t)

\* The item after the whole of item i, with all that an array or a map holds; 0
\* when they are not all written.
RECURSIVE After(_), AfterAll(_, _)
After(i) ==
  IF i = 0 \/ i > Len(doc) THEN 0
  ELSE CASE doc[i].t = "array" -> AfterAll(i + 1, doc[i].v)
         [] doc[i].t = "map" -> AfterAll(i + 1, 2 * doc[i].v)
         [] OTHER -> i + 1
AfterAll(i, n) == IF i = 0 \/ n = 0 THEN i ELSE AfterAll(After(i), n - 1)

\* CBOR: however often the buffer is full, what was written reads back, value by
\* value; skip passes over an item with everything nested in it; and a document
\* that is cut anywhere reads as cut, not as something else.
CborReadsBack ==
  LET at == Starts(w.buf, CborItem)
  IN /\ Len(w.buf) <= w.cap
     /\ Last(at) = Len(w.buf)
     /\ \A i \in DOMAIN doc :
          LET s == skip(w.buf, at[i])
          IN IF After(i) = 0 THEN s.rc = "underflow" ELSE s.rc = "ok" /\ s.next = at[After(i)]
     /\ \A i \in DOMAIN doc : \A n \in at[i]..at[i + 1] - 1 :
          LET r == decode(SubSeq(w.buf, 1, n), at[i], doc[i].t) IN r.rc = "underflow"

\* Protocol Buffers: the same; a tag without a value can only be the last thing in
\* the buffer, after an error.
FieldsReadBack ==
  LET at == Starts(w.buf, FieldItem)
  IN /\ Len(w.buf) <= w.cap
     /\ Last(at) >= 0 /\ (w.rc = "ok" => Last(at) = Len(w.buf))
     /\ \A i \in DOMAIN doc :
          /\ skip_field(w.buf, decode_tag(w.buf, at[i]).next, Wire(doc[i].t)).next = at[i + 1]
          /\ \A n \in at[i]..at[i + 1] - 1 :
               LET cut == SubSeq(w.buf, 1, n)
                   tag == decode_tag(cut, at[i])
               IN tag.rc = "underflow" \/ Value(cut, tag.next, doc[i].t).rc = "underflow"

\* JSON: a document built by legal calls has its commas and colons where they
\* belong, at every depth, and no string runs into the next; skip_value passes
\* over the whole of it, and over nothing less.
TokensReadBack ==
  /\ Len(w.buf) <= w.cap
  /\ w.rc = "ok" =>
       /\ Tokens(w.buf, 1) = doc.toks
       /\ LET s == skip_value(w.buf, 1, 0)
          IN IF doc.open = <<>> /\ doc.toks # <<>> THEN s.rc = "ok" /\ s.next = Len(w.buf) + 1 ELSE s.rc # "ok"

\* CoAP: what coap_build made is parsed to the same message, path and token as far
\* as there is room for them; options it does not know are passed over, wherever
\* they stand; and a message that is cut is refused or yields less of the same, never
\* an option or a byte of payload that is not there.
Joined(segs) == FirstOf(FlattenSeq([i \in DOMAIN segs |-> <<SLASH>> \o segs[i]]), MAX_URI_PATH)
Numbers(opts) == FoldLeft(LAMBDA nums, o : Append(nums, o[1] + (IF nums = <<>> THEN 0 ELSE Last(nums))), <<>>, opts)
Understood(m) ==
  LET num == IF m.t = "sent" THEN <<>> ELSE Numbers(m.opts)
      with(n) == {i \in DOMAIN num : num[i] = n /\ (n = CONTENT_FMT => Len(m.opts[i][2]) <= 2)}
      segs == IF m.t = "sent" THEN Segments(m.path) ELSE [i \in 1..Cardinality(with(URI_PATH)) |->
                 m.opts[CHOOSE j \in with(URI_PATH) : Cardinality({x \in with(URI_PATH) : x <= j}) = i][2]]
      cfmt == IF m.t = "sent" THEN m.cfmt ELSE IF with(CONTENT_FMT) = {} THEN -1
        ELSE Number(m.opts[Max(with(CONTENT_FMT))][2])
  IN [ok |-> TRUE, type |-> m.type, code |-> m.code, id |-> m.id, token |-> FirstOf(m.token, MAX_TOKEN_LEN),
      path |-> Joined(segs), cfmt |-> cfmt, payload |-> m.payload]
CoapReadsBack ==
  LET whole == coap_parse(w.buf)
      narrow == doc.t = "sent" \/ (doc.t = "foreign" /\ \A n \in ToSet(Numbers(doc.opts)) : n < 65536)
  IN /\ Len(w.buf) <= w.cap
     /\ doc.t # "none" /\ w.rc = "ok" =>
          /\ narrow => whole = Understood(doc)
          /\ \A n \in 0..Len(w.buf) :
               LET cut == coap_parse(SubSeq(w.buf, 1, n))
               IN cut.ok => /\ [cut EXCEPT !.path = 0, !.cfmt = 0, !.payload = 0] =
                                [whole EXCEPT !.path = 0, !.cfmt = 0, !.payload = 0]
                            /\ IsPrefix(cut.path, whole.path) /\ IsPrefix(cut.payload, whole.payload)
                            /\ cut.cfmt \in {-1, whole.cfmt}

\* MQTT: a broker that reads a CONNECT as its flags say finds exactly what the
\* application set, in the length the packet gives, whenever it fits.  Not known are
\* the credentials after a call that failed half way, and the message of a will set
\* without one.
Utf8At(buf, pos) ==
  LET n == Number(SubSeq(buf, pos + 1, pos + 2))
  IN IF pos + 2 > Len(buf) \/ pos + 2 + n > Len(buf) THEN Fails("short", pos)
    ELSE Read("ok", SubSeq(buf, pos + 3, pos + 2 + n), pos + 2 + n)
ConnectReadsBack ==
  LET buf == mqtt_send_connect(w)
      len == decode_varint(buf, 1)
      flags == buf[len.next + 8]
      has(f) == (flags \div f) % 2 = 1
      read(at, f) == IF has(f) THEN Utf8At(buf, at) ELSE Read("ok", <<>>, at)
      cid == Utf8At(buf, len.next + 10)
      topic == read(cid.next, 4)
      msg == read(topic.next, 4)
      user == read(msg.next, 128)
      pass == read(user.next, 64)
  IN buf # <<>> =>
       /\ Len(buf) <= TX_BUF_SIZE
       /\ len.rc = "ok" /\ len.next + len.val = Len(buf)
       /\ \A r \in {cid.rc, topic.rc, msg.rc, user.rc, pass.rc} : r = "ok"
       /\ pass.next = Len(buf)
       /\ doc.known => cid.val = doc.cid /\ user.val = doc.user /\ pass.val = doc.pass
       /\ doc.willed => (IF has(4) THEN <<topic.val, msg.val, (flags \div 8) % 4, (flags \div 32) % 2>>
            ELSE <<>>) = doc.will
=============================================================================
