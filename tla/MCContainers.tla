---------------------------- MODULE MCContainers ----------------------------
(***************************************************************************)
(* TLC instances of what a program links by itself: the containers of ds/, *)
(* the codecs and compressors, the running features, the drivers and the   *)
(* user interface.  Each behaviour uses one of them; they are given the    *)
(* same variables, so that `struct` is the C struct and g1 to g5 what its  *)
(* module keeps beside it.                                                 *)
(***************************************************************************)
EXTENDS Integers, Sequences

VARIABLES scenario, struct, g1, g2, g3, g4, g5
obj == <<struct, g1, g2, g3, g4, g5>>

\* Capacities 1 to 3, so that the indices wrap at and below the array's end.
Ring == INSTANCE Ringbuf WITH rb <- struct, out <- g1, Elem <- 1..2, MAX_SIZE <- 3
Dq == INSTANCE Deque WITH dq <- struct, out <- g1, Elem <- 1..2, MAX_SIZE <- 3
Pq == INSTANCE Pqueue WITH pq <- struct, waiting <- g1, taken <- g2, Elem <- 1..2, MAX_LEVELS <- 2, MAX_PER_LEVEL <- 2
\* Five appends turn a log of three entries over; power fails twice.
Log == INSTANCE Circlog WITH
  log <- struct, call <- g1, hist <- g2, torn <- g3, skewed <- g4, crashes <- g5,
  MAX_ENTRIES <- 3, MaxAppends <- 5, MaxCrashes <- 2
\* Two timers; delays up to the last the counter can tell from none.
Wheel == INSTANCE Timerwheel WITH
  tw <- struct, due <- g1, missed <- g2, ids <- g3, MAX_TIMERS <- 2, TickSpace <- 4, Delays <- 1..3, Intervals <- 0..3
\* What the theorem on the timers assumes holds of these values.
ASSUME WheelBounds == Wheel!Bounds
\* Four keys for three slots, with every hash function.
Table == INSTANCE Htable WITH
  ht <- struct, hash <- g1, kept <- g2, rc <- g3, Keys <- 1..4, Elem <- 1..2, MAX_SIZE <- 3
Linked == INSTANCE List WITH list <- struct, order <- g1, Elem <- 1..2, MAX_NODES <- 3
\* Nodes of one to three keys; the pool ends within a split and within a raise.
Tree == INSTANCE Btree WITH bt <- struct, held <- g1, rc <- g2, ORDER <- 2, MAX_NODES <- 6, Keys <- 1..3

\* Words of two bits, keys of two bytes with a common start, a pool that ends
\* within a key.
Small == INSTANCE SmallSets WITH
  box <- struct, ref <- g1, rc <- g2, Elem <- 1..2, MAX_SIZE <- 3, WORD <- 2, MAX_BITS <- 4, Keys <- {"k", "l"},
  HASHES <- 2, Paths <- {<<0, 0>>, <<0, 1>>, <<0, 0, 1, 0>>}, MAX_NODES <- 5, STATES <- 2, EVENTS <- 2

\* Values at the ends of each length of head and varint; buffers that end within
\* a value and behind it.
CborItems ==
  {[t |-> "uint", v |-> v] : v \in {23, 24, 255, 256, 65536}} \union {[t |-> "int", v |-> v] : v \in {-1, -25, -257, 7}}
    \union {[t |-> "array", v |-> 2], [t |-> "map", v |-> 1], [t |-> "tstr", s |-> <<97, 98>>],
            [t |-> "bstr", s |-> <<>>], [t |-> "bool", v |-> 1], [t |-> "null"]}
FieldItems ==
  {[f |-> 1, t |-> "uint32", v |-> v] : v \in {0, 127, 128, 16384, 2097152}}
    \union {[f |-> 16, t |-> "sint32", v |-> v] : v \in {-1, 1, -65, 64}}
    \union {[f |-> 0, t |-> "bool", v |-> 1], [f |-> 2, t |-> "bool", v |-> 1],
      [f |-> 2, t |-> "string", s |-> <<97, 98>>],
            [f |-> 3, t |-> "fixed32", v |-> 16909060], [f |-> 16, t |-> "sub", s |-> <<8, 1>>]}
JsonItems ==
  {[t |-> "str", s |-> <<97, 34>>], [t |-> "str", s |-> <<92, 1>>], [t |-> "int", v |-> -120], [t |-> "int", v |-> 0],
   [t |-> "word", b |-> "true"]}
\* The two messages of net/: small limits, and strings that together do not fit.
MAX_TOKEN_LEN == 2
MAX_URI_PATH == 5
MAX_STRING == 60
TX_BUF_SIZE == 192
Cbor == INSTANCE Codec WITH
  w <- struct, doc <- g1, Items <- CborItems, Caps <- {4, 12}, MaxItems <- 4, MAX_DEPTH <- 2, IntBits <- 10
Fields == INSTANCE Codec WITH
  w <- struct, doc <- g1, Items <- FieldItems, Caps <- {4, 12}, MaxItems <- 3, MAX_DEPTH <- 2, IntBits <- 10
Json == INSTANCE Codec WITH
  w <- struct, doc <- g1, Items <- JsonItems, Caps <- {5, 30}, MaxItems <- 6, MAX_DEPTH <- 2, IntBits <- 10

\* Messages of this program and of others: options with every length of header,
\* numbers that come round, tokens, paths and formats that find no room.
Long(n) == [i \in 1..n |-> 98]
Upto(S, n) == UNION {[1..k -> S] : k \in 0..n}
CoapMessages ==
  [t : {"sent"}, type : {0, 2}, code : {1}, id : {258}, token : {<<>>, <<255, 1>>}, cfmt : {-1, 0, 50, 300},
    payload : {<<>>, <<255, 7>>},
   path : {<<>>, <<47>>, <<97>>, <<47, 97, 47, 47, 98, 47>>, <<97, 98, 47, 99, 100, 101>>, Long(13), Long(269)}]
  \union [t : {"foreign"}, type : {1}, code : {3}, id : {1}, token : {<<>>, <<1, 2, 3>>}, payload : {<<>>, <<0>>},
          opts : Upto({<<11, <<97>>>>, <<0, <<98, 99, 100>>>>, <<1, <<50>>>>, <<3, <<200>>>>,
                       <<49, <<1, 2, 3>>>>, <<300, Long(14)>>, <<65236, <<>>>>}, 3)]
Message == INSTANCE Codec WITH
  w <- struct, doc <- g1, Items <- CoapMessages, Caps <- {9, 14, 300}, MaxItems <- 1, MAX_DEPTH <- 2, IntBits <- 10

\* Bytes of two bits: counts, lengths and symbols all run out.
Text == INSTANCE Compress WITH
  input <- struct, packed <- g1, unpacked <- g2, BYTE <- 2, WINDOW_BITS <- 2, LOOKAHEAD_BITS <- 1, MIN_MATCH <- 2,
  MAX_INPUT <- 6, MAX_MERGES <- 2, Texts <- Upto({0, 1}, 7) \union Upto({0, 1, 2}, 4),
  Octets <- Upto({0, 77, 255}, 4), Caps <- {1, 5, 7, 16}

\* Counters that come round at six; windows that divide six and that do not.
Signal == INSTANCE Signals WITH
  f <- struct, seen <- g1, Samples <- {-2, 1, 3}, MaxSamples <- 7, W16 <- 6, INT <- 10, POINT <- 2, MAX_WINDOW <- 4,
  Ranges <- {<<0, 3>>, <<-2, 5>>}, Spreads <- {<<0, 1>>, <<1, 3>>},
  Features <- {<<"delta", <<>>>>, <<"skip", <<2>>>>, <<"skip", <<1>>>>, <<"ema", <<1>>>>, <<"ema", <<2>>>>,
    <<"ewma", <<3, 2>>>>, <<"ewma", <<4, 2>>>>, <<"peak", <<1>>>>, <<"peak", <<2>>>>, <<"histogram", <<2, 0, 2>>>>,
    <<"goertzel", <<7, 4>>>>, <<"goertzel", <<-5, 4>>>>, <<"median", <<3>>>>, <<"median", <<1>>>>, <<"zcr", <<2>>>>,
    <<"zcr", <<3>>>>, <<"statistics", <<3>>>>, <<"statistics", <<1>>>>, <<"minmax", <<3>>>>, <<"minmax", <<4>>>>,
    <<"minmax", <<2>>>>, <<"welford", <<>>>>, <<"energy", <<>>>>, <<"scale", <<0, 2, 5, 4>>>>,
    <<"zscore", <<0, 1, 3>>>>,
    <<"distance", <<>>>>}

\* Readings at zero, at the ends of the range and just below zero; two losses of
\* power or faults of the bus; panels of one plane and of two.
Device == INSTANCE Devices WITH
  dev <- struct, drv <- g1, op <- g2, last <- g3, faults <- g4, MaxFaults <- 2, BYTE <- 2, Width <- 2, Height <- 2,
    Planes <- 2,
  Raws <- [adt7410 |-> {0, 7, 3207, 32768, 58496, 65535, 65528}, mcp9808 |-> {0, 49407, 7936, 8191, 4096, 2000},
           ds18b20 |-> {0, 1360, 65535, 64656, 63}]
OnePlane == INSTANCE Devices WITH
  dev <- struct, drv <- g1, op <- g2, last <- g3, faults <- g4, MaxFaults <- 2, BYTE <- 2, Width <- 2, Height <- 1,
    Planes <- 1, Raws <- <<>>

\* Three trees of widgets: a column between a label and a text box, a grid with
\* holes beside an icon, and a row on one of two windows of a stack of two.
Pressed(c) == [on_click |-> c]
TextBox == [k |-> "textbox", buffer |-> [i \in 0..1 |-> 1 - i], capacity |-> 2, length |-> 1, cursor |-> 1,
  kind |-> "text"]
Column ==
  [kids |-> [win |-> <<"l", "v", "t">>, v |-> <<"a", "b", "c">>],
   kind |-> [l |-> "label", v |-> "vbox", t |-> "textbox", a |-> "button", b |-> "slider", c |-> "checkbox"],
   leaf |-> [l |-> 0, t |-> TextBox, a |-> Pressed(FALSE), c |-> [checked |-> 0],
             b |-> [min |-> 0, max |-> 1, step |-> 1, value |-> 0]],
   at |-> <<>>, windows |-> {"win"}, hides |-> {"v", "a", "b", "t"}]
Cells ==
  [kids |-> [win |-> <<"g", "a">>, g |-> <<"b", "c", "d", "e">>],
   kind |-> [g |-> "grid", a |-> "icon", b |-> "checkbox", c |-> "button", d |-> "icon", e |-> "button"],
   leaf |-> [a |-> Pressed(TRUE), b |-> [checked |-> 0], c |-> Pressed(TRUE), d |-> Pressed(TRUE),
     e |-> Pressed(FALSE)],
   at |-> [b |-> <<2, 0>>, c |-> <<0, 1>>, d |-> <<1, 2>>, e |-> <<0, 0>>], windows |-> {"win"},
     hides |-> {"b", "c", "d"}]
Windows ==
  [kids |-> [win |-> <<"a", "h">>, h |-> <<"b", "c", "d">>, pop |-> <<"e", "f">>],
   kind |-> [h |-> "hbox", a |-> "toggle", b |-> "button", c |-> "label", d |-> "textbox", e |-> "icon",
     f |-> "button"],
   leaf |-> [a |-> [on |-> 0], b |-> Pressed(TRUE), c |-> 0, d |-> TextBox, e |-> Pressed(TRUE), f |-> Pressed(TRUE)],
   at |-> <<>>, windows |-> {"win", "pop"}, hides |-> {"b", "d"}]
\* Sizes with and without room, remainders of every division, ends of 16 bits.
Child(m, c, f) == [main |-> m, cross |-> c, flex |-> f]
Drawings ==
  [k : {"box"}, main : {0, 3, 9, 16}, cross : {4, 7}, pad : {0, 2}, pad_cross : {1}, spacing : {0, 1, 4},
   align : {"LEFT", "CENTER", "RIGHT"},
     kids : Upto({Child(3, 2, 0), Child(0, 5, 0), Child(4, 1, 1), Child(1, 3, 2)}, 3)]
  \union [k : {"grid"}, w : 0..20, n : 1..4, pad : {0, 3}, spacing : {0, 1, 2}]
  \union [k : {"strip"}, w : 2..40, n : 1..6, gap : {0, 1, 3}]
  \union [k : {"value"}, w : {2, 4, 5, 8, 60}, min : {-32768, -3, 0}, max : {-1, 0, 7, 32767},
          value : {-32768, -1, 0, 3, 7, 32766, 32767}]
  \union UNION {[k : {"plot"}, w : {4, 6}, h : {5}, xs : [1..n -> {-32768, 0, 32767}],
    ys : [1..n -> {-32768, 5, 7, 32767}],
                 x_dom : {<<0, 0>>, <<1, 9>>}, y_dom : {<<3, 3>>, <<0, 6>>, <<6, 0>>}] : n \in 0..2}
  \union [k : {"walk"}, spots : {S \in SUBSET ((0..2) \X (0..2)) : S # {}}]
\* A signed byte of -4..3; months and years that end in every way.
Screen == INSTANCE Ui WITH
  ui <- struct, ref <- g1, STACK_DEPTH <- 2, MAX_ITEMS <- 3, S8BIT <- 4, CAPACITY <- 4, MaxLife <- 2, MaxDays <- 32,
  Trees <- {Column, Cells, Windows}, Shapes <- Drawings,
  Dates <- {<<2024, 1, 31>>, <<2023, 2, 29>>, <<1900, 2, 28>>, <<2000, 13, 30>>, <<2099, 12, 31>>, <<2100, 3, 1>>},
  Ranges <- {<<0, 10, 3>>, <<5, -5, 0>>, <<-32760, -32740, 7>>, <<32740, 32760, 7>>, <<2, 2, 1>>}

Init ==
  \/ scenario = "ringbuf" /\ Ring!Init /\ g2 = 0 /\ g3 = 0 /\ g4 = 0 /\ g5 = 0
  \/ scenario = "deque" /\ Dq!Init /\ g2 = 0 /\ g3 = 0 /\ g4 = 0 /\ g5 = 0
  \/ scenario = "pqueue" /\ Pq!Init /\ g3 = 0 /\ g4 = 0 /\ g5 = 0
  \/ scenario = "circlog" /\ Log!Init
  \/ scenario = "timerwheel" /\ Wheel!Init /\ g4 = 0 /\ g5 = 0
  \* A table turned round is the same table: the first key may have slot 0.
  \/ scenario = "htable" /\ Table!Init /\ g1[1] = 0 /\ g4 = 0 /\ g5 = 0
  \/ scenario = "list" /\ Linked!Init /\ g2 = 0 /\ g3 = 0 /\ g4 = 0 /\ g5 = 0
  \/ scenario = "btree" /\ Tree!Init /\ g3 = 0 /\ g4 = 0 /\ g5 = 0
  \/ scenario \in {"array", "stack", "sortarray"} /\ Small!SeqInit /\ g3 = 0 /\ g4 = 0 /\ g5 = 0
  \/ scenario = "bitmap" /\ Small!BitInit /\ g3 = 0 /\ g4 = 0 /\ g5 = 0
  \/ scenario = "bloom" /\ Small!BloomInit /\ g3 = 0 /\ g4 = 0 /\ g5 = 0
  \/ scenario = "trie" /\ Small!TrieInit /\ g3 = 0 /\ g4 = 0 /\ g5 = 0
  \/ scenario = "sm" /\ Small!MachineInit /\ g3 = 0 /\ g4 = 0 /\ g5 = 0
  \/ scenario = "cbor" /\ Cbor!Init /\ g2 = 0 /\ g3 = 0 /\ g4 = 0 /\ g5 = 0
  \/ scenario = "protobuf" /\ Fields!Init /\ g2 = 0 /\ g3 = 0 /\ g4 = 0 /\ g5 = 0
  \/ scenario = "json" /\ Json!JsonInit /\ g2 = 0 /\ g3 = 0 /\ g4 = 0 /\ g5 = 0
  \/ scenario = "coap" /\ Message!CoapInit /\ g2 = 0 /\ g3 = 0 /\ g4 = 0 /\ g5 = 0
  \/ scenario = "connect" /\ Message!ConnectInit /\ g2 = 0 /\ g3 = 0 /\ g4 = 0 /\ g5 = 0
  \/ scenario = "text" /\ Text!Init /\ g3 = 0 /\ g4 = 0 /\ g5 = 0
  \/ scenario = "signal" /\ Signal!Init /\ g2 = 0 /\ g3 = 0 /\ g4 = 0 /\ g5 = 0
  \/ scenario = "adt7410" /\ Device!I2cInit("adt7410") /\ g5 = 0
  \/ scenario = "mcp9808" /\ Device!I2cInit("mcp9808") /\ g5 = 0
  \/ scenario = "ds18b20" /\ Device!WireInit /\ g5 = 0
  \/ scenario = "epaper" /\ Device!PanelInit /\ g5 = 0
  \/ scenario = "epaper1" /\ OnePlane!PanelInit /\ g5 = 0
  \/ scenario = "focus" /\ Screen!FocusInit /\ g2 = 0 /\ g3 = 0 /\ g4 = 0 /\ g5 = 0
  \/ scenario = "widget" /\ Screen!WidgetInit /\ g2 = 0 /\ g3 = 0 /\ g4 = 0 /\ g5 = 0
  \/ scenario = "shape" /\ Screen!ShapeInit /\ g2 = 0 /\ g3 = 0 /\ g4 = 0 /\ g5 = 0
RingStep == scenario = "ringbuf" /\ Ring!Next /\ UNCHANGED <<g2, g3, g4, g5>>
DequeStep == scenario = "deque" /\ Dq!Next /\ UNCHANGED <<g2, g3, g4, g5>>
PqueueStep == scenario = "pqueue" /\ Pq!Next /\ UNCHANGED <<g3, g4, g5>>
LogStep == scenario = "circlog" /\ Log!Next
WheelStep == scenario = "timerwheel" /\ Wheel!Next /\ UNCHANGED <<g4, g5>>
TableStep == scenario = "htable" /\ Table!Next /\ UNCHANGED <<g4, g5>>
ListStep == scenario = "list" /\ Linked!Next /\ UNCHANGED <<g2, g3, g4, g5>>
TreeStep == scenario = "btree" /\ Tree!Next /\ UNCHANGED <<g3, g4, g5>>
ArrayStep == scenario = "array" /\ Small!ArrayNext /\ UNCHANGED <<g3, g4, g5>>
StackStep == scenario = "stack" /\ Small!StackNext /\ UNCHANGED <<g3, g4, g5>>
SortStep == scenario = "sortarray" /\ Small!SortNext /\ UNCHANGED <<g3, g4, g5>>
BitStep == scenario = "bitmap" /\ Small!BitNext /\ UNCHANGED <<g3, g4, g5>>
BloomStep == scenario = "bloom" /\ Small!BloomNext /\ UNCHANGED <<g3, g4, g5>>
TrieStep == scenario = "trie" /\ Small!TrieNext /\ UNCHANGED <<g3, g4, g5>>
MachineStep == scenario = "sm" /\ Small!MachineNext /\ UNCHANGED <<g3, g4, g5>>
CborStep == scenario = "cbor" /\ Cbor!CborNext /\ UNCHANGED <<g2, g3, g4, g5>>
FieldStep == scenario = "protobuf" /\ Fields!FieldNext /\ UNCHANGED <<g2, g3, g4, g5>>
JsonStep == scenario = "json" /\ Json!JsonNext /\ UNCHANGED <<g2, g3, g4, g5>>
CoapStep == scenario = "coap" /\ Message!CoapNext /\ UNCHANGED <<g2, g3, g4, g5>>
ConnectStep == scenario = "connect" /\ Message!ConnectNext /\ UNCHANGED <<g2, g3, g4, g5>>
TextStep == scenario = "text" /\ Text!Next /\ UNCHANGED <<g3, g4, g5>>
SignalStep == scenario = "signal" /\ Signal!Next /\ UNCHANGED <<g2, g3, g4, g5>>
SensorStep == scenario \in {"adt7410", "mcp9808"} /\ Device!I2cNext /\ UNCHANGED g5
WireStep == scenario = "ds18b20" /\ Device!WireNext /\ UNCHANGED g5
PanelStep == scenario = "epaper" /\ Device!PanelNext /\ UNCHANGED g5
OnePlaneStep == scenario = "epaper1" /\ OnePlane!PanelNext /\ UNCHANGED g5
FocusStep == scenario = "focus" /\ Screen!FocusNext /\ UNCHANGED <<g2, g3, g4, g5>>
WidgetStep == scenario = "widget" /\ Screen!WidgetNext /\ UNCHANGED <<g2, g3, g4, g5>>
Next ==
  /\ \/ RingStep \/ DequeStep \/ PqueueStep \/ LogStep \/ WheelStep \/ TableStep \/ ListStep \/ TreeStep
     \/ ArrayStep \/ StackStep \/ SortStep \/ BitStep \/ BloomStep \/ TrieStep \/ MachineStep
     \/ CborStep \/ FieldStep \/ JsonStep \/ CoapStep \/ ConnectStep \/ TextStep \/ SignalStep
     \/ SensorStep \/ WireStep \/ PanelStep \/ OnePlaneStep \/ FocusStep \/ WidgetStep
  /\ UNCHANGED scenario
Spec == Init /\ [][Next]_<<obj, scenario>>

(***************************************************************************)
(* Properties.                                                             *)
(***************************************************************************)
\* ringbuf and deque: every call does to the live slots what BoundedSeq says.
Implements ==
  [][/\ scenario = "ringbuf" => Ring!Abstract!Next
     /\ scenario = "deque" => Dq!Abstract!Next]_<<struct, g1>>
\* circlog: a loss of power spoils the entry being written and no other.
HistoryKept == scenario = "circlog" => Log!HistoryKept
\* timerwheel: each timer fires in its tick, however calls come between.
FiresOnTime == scenario = "timerwheel" => Wheel!FiresOnTime

\* The other containers hold what the calls describe.  pqueue: the oldest element
\* of the highest level in use comes first.  htable: for any collisions, past
\* tombstones.  list: no node is lost or on both chains.  btree, trie: no insert,
\* failed ones included, loses or misplaces a key.  array, stack, sortarray,
\* bitmap: stale slots and bits are never seen.  bloom: no added key is denied.
\* sm: the state is in the table unless an action cleared it.
ContentsAgree ==
  CASE scenario = "pqueue" -> Pq!PriorityThenAge
    [] scenario = "htable" -> Table!LooksUpWhatWasPut
    [] scenario = "list" -> Linked!ChainsAreSound
    [] scenario = "btree" -> Tree!KeysAreKept
    [] scenario = "array" -> Small!ArrayAgrees
    [] scenario = "stack" -> Small!StackAgrees
    [] scenario = "sortarray" -> Small!SortAgrees
    [] scenario = "bitmap" -> Small!BitsAgree
    [] scenario = "bloom" -> Small!NeverDenied
    [] scenario = "trie" -> Small!TrieAgrees
    [] scenario = "sm" -> Small!StateInTable
    [] OTHER -> TRUE

\* codec, textcompression, base64, the messages of coap and mqtt: what was written or
\* encoded without an error is read back as it was, cut or damaged data is refused or
\* at least harmless, and no buffer is overrun.
RoundTrip ==
  CASE scenario = "cbor" -> Cbor!CborReadsBack
    [] scenario = "protobuf" -> Fields!FieldsReadBack
    [] scenario = "json" -> Json!TokensReadBack
    [] scenario = "coap" -> Message!CoapReadsBack
    [] scenario = "connect" -> Message!ConnectReadsBack
    [] scenario = "text" -> Text!RoundTrip
    [] OTHER -> TRUE

\* sigfeatures, statistics: what a running feature says at any time is what its
\* definition gives for the samples pushed, or for its window of them.
FeaturesAgree == scenario = "signal" => Signal!FeaturesAgree

\* sensors and epaper: a read gives what the register held; a setting or refresh
\* that is said to be done was done, faults of the bus and of the power included.
DevicesSound ==
  /\ scenario \in {"adt7410", "mcp9808", "ds18b20"} => Device!SensorsSound
  /\ scenario = "epaper" => Device!PanelSound
  /\ scenario = "epaper1" => OnePlane!PanelSound

\* ui: keys reach every widget and act on the one drawn as focused; lists, text boxes,
\* calendars and the rest show and hold what was asked; children, bars and points
\* are laid out and drawn within their place.
WidgetsSound ==
  CASE scenario = "focus" -> Screen!FocusSound
    [] scenario = "widget" -> Screen!WidgetSound
    [] scenario = "shape" -> Screen!ShapeSound(struct)
    [] OTHER -> TRUE
=============================================================================
