------------------------------ MODULE MC_Decoding ------------------------------
(* The way of bytes to the JSON session's page for TLC: the reader of vendor *)
(* files, the links between their records, the way from a preparation to a *)
(* shown value, what the servers read from an ECU's answers, and the page  *)
(* itself, each explored while the others rest in one initial state.       *)
(*                                                                         *)
(* Page: two variants and one without a pattern; services that need input  *)
(* and that do not; a search that matches one of the lists.  Lists of up   *)
(* to two codes, one message posted and two handled between two drawings   *)
(* are the fewest that let one of two rows vanish, a start be overtaken    *)
(* and a press meet a view out of date.                                    *)
EXTENDS CaesarReader, CbfLinks, CbfFormats, EcuAnswers, JsonSession, TLC

VARIABLE explored

\* Files of n bytes: zeros, so that every distance is the base itself; or each
\* byte its own place.
Zeros(n) == [i \in 1..n |-> 0]
Counting(n) == [i \in 1..n |-> (i - 1) % 100]

Rec(layout, given, file, start) ==
  [layout |-> layout, given |-> given, file |-> file, start |-> start, base |-> 1, checked |-> TRUE]

\* A size, a distance and a byte; both may be below zero, and the build unchecked.
Bytes(i32) == <<i32 % 256, (i32 \div 256) % 256, (i32 \div 65536) % 256, (i32 \div 16777216) % 256>>
Below ==
  {[layout |-> Layout(<<"i32", "dump", "string">>, <<>>, 0), given |-> 1..3, start |-> 2, base |-> b,
    checked |-> c, file |-> <<0, 0>> \o Bytes(n) \o Bytes(d) \o Bytes(d) \o <<0, 7>>] :
     b \in {0, 1, 5}, c \in BOOLEAN, n \in {-20, -1, 0, 3, 12}, d \in {-4, -1, 0, 10}}

\* Short records of every kind of field, cut anywhere, with any flags; every
\* record of a CBF file, whole and with a field missing.
Short == {Layout(<<"string", "i16">>, <<"i8">>, 1), Layout(<<"i32", "dump", "i8">>, <<>>, 0),
          Layout(<<"i16", "i8", "i32">>, <<"i8", "i16">>, 1), DtcLayout}
Long == {ScaleLayout, CffLayout, CtfLayout, LanguageLayout, InterfaceLayout, SubTypeLayout,
         ComParameterLayout, VariantPatternLayout, PreparationLayout, PresentationLayout,
         VariantLayout, ServiceLayout, EcuLayout}
AllFields(l) == 1..Len(Fields(l))

MCRecords ==
  {Rec(l, g, f, 2) : l \in Short, g \in SUBSET (1..5),
                     f \in {Zeros(n) : n \in 2..16} \cup {Counting(n) : n \in {4, 9, 16}}}
    \cup {Rec(l, AllFields(l), Zeros(n), 4) : l \in Long, n \in {60, 199, 200}}
    \cup Below
    \cup UNION {{Rec(l, AllFields(l) \ {i}, Counting(200), 4) : i \in {1, 3, 32}} : l \in Long}

Entry(i, from, n) == [index |-> i, from |-> from, count |-> n]
File(dpool, epool, refs, ins, downs) ==
  [services |-> 2, dtcs |-> 2, envs |-> 2, servicePool |-> <<1, 5, 0>>, dtcPool |-> dpool, envPool |-> epool,
   xrefs |-> refs, payload |-> <<33, 1>>, inputs |-> ins, downloads |-> downs, checked |-> FALSE]
\* Cross references are counted from 0 in the file.
Entries == {Entry(0, 0, 2), Entry(1, 1, 1), Entry(5, 0, 1), Entry(-1, 1, 1)}
Input(start, bits, dump) == [start |-> start, bits |-> bits, dump |-> dump]
Inputs == {Input(0, 8, <<33>>), Input(8, 8, <<1>>), Input(8, 8, <<2>>), Input(8, 4, <<1>>), Input(24, 8, <<>>)}
Download(p, outs) == [payload |-> p, outputs |-> outs]
UpTo(n, S) == UNION {[1..k -> S] : k \in 0..n}

MCFiles ==
  {File(d, e, r, <<>>, <<>>) : d \in UpTo(3, Entries), e \in UpTo(2, {0, 1, 2}), r \in {<<0, 1>>, <<1, 0>>, <<1, 5>>, <<0>>}}
    \cup {[File(<<Entry(1, 1, 1), e>>, <<0>>, <<0>>, <<>>, <<>>) EXCEPT !.checked = c] :
             c \in BOOLEAN, e \in {Entry(0, 1, Highest), Entry(0, -2, -Highest), Entry(5, -1, 1)}}
    \cup {File(<<>>, <<>>, <<>>, i, <<>>) : i \in UpTo(4, Inputs)}
    \cup {File(<<>>, <<>>, <<>>, <<>>,
               <<Download(p[1], [j \in 1..n[1] |-> j]), Download(p[2], [j \in 1..n[2] |-> 10 + j]),
                 Download(p[3], [j \in 1..n[3] |-> 20 + j])>>) :
             p \in [1..3 -> {<<33, 1>>, <<33, 2>>, <<33>>}], n \in [1..3 -> 0..2]}

MCAnswers == {<<>>, <<5>>, <<1, 2, 3>>, <<5, 0, 100, 7, 9>>}
MCParams ==
  {[start |-> s, length |-> n, order |-> o, format |-> f, table |-> <<<<5, 5>>, <<1, 4>>>>] :
     s \in {0, 3, 8, 16}, n \in {-9, -1, 0, 1, 4, 8, 12, 16, 20, 24, 32, 40}, o \in {"big", "little"}, f \in Formats}

Presentation(e1e, t1c, n, kind, l1a, len) ==
  [enum1e |-> e1e, type1c |-> t1c, scales |-> n, bNames |-> n = 4, unk14 |-> kind = "text",
   scaled |-> kind = "scale", dumped |-> kind = "dump", unk1b |-> IF kind = "int" THEN 5 ELSE -1,
   length1a |-> l1a, length |-> len, table |-> [i \in 1..n |-> <<i, i>>]]
Digit(i, n, digits) == digits[(((i - 1) \div n) % Len(digits)) + 1]
MCPresentations ==      \* every combination, in some order
  [i \in 1..240 |->
     Presentation(Digit(i, 1, <<0, 1>>), Digit(i, 2, <<0, 1>>), Digit(i, 4, <<0, 1, 2, 4>>),
                  Digit(i, 16, <<"text", "scale", "dump", "int", "none">>), Digit(i, 80, <<0, 1, 2>>), 3)]
  \o [i \in 1..90 |->      \* lengths below zero, and too long for eight times an i32
       Presentation(Digit(i, 1, <<0, 1>>), Digit(i, 2, <<0, 1, -1>>), Digit(i, 6, <<0, 2, 3>>),
                    Digit(i, 18, <<"text", "scale", "dump", "int", "none">>), -1,
                    Digit(i, 1, <<-9, -1, 268435456, 536870913, 1>>))]
MCInternal == SubSeq(MCPresentations, 231, 260)
Prep(e, h, l, system, pool, bit, bytes, ref) ==
  [e |-> e, h |-> h, l |-> l, system |-> system, pool |-> pool, width |-> 3, bit |-> bit, bytes |-> bytes, ref |-> ref]
MCPreps ==
  {Prep("2000", "000", 0, -1, i, b, 2, "none") : i \in 0..Len(MCPresentations), b \in {0, 4, 8}}
    \cup {Prep("8000", "000", 0, -1, i, 4, 2, "none") : i \in 0..Len(MCInternal)}
    \cup {Prep(e, h, l, sys, 0, 16, b, r) : e \in {"8000", "1000"}, h \in {"320", "330", "340", "410", "420", "430", "440"},
             l \in {3, 7}, sys \in {-1, 16, 33, 40}, b \in {1, 3}, r \in {"none", "global", "service"}}

\* Lists of up to two codes, cut or lengthened; the states' bits alone and together.
Reply(protocol, topic, bytes) == [protocol |-> protocol, topic |-> topic, bytes |-> bytes]
CutTo(n, bytes) == SubSeq(bytes, 1, n)
KwpList(n, s, t) == <<88, n, 1, 2, s, 3, 4, t, 9>>
UdsList(s, t) == <<89, 2, 255, 1, 2, 3, s, 4, 5, 6, t>>
Statuses == {0, 1, 4, 5, 8, 9, 12, 13, 32, 64, 96, 128, 255}
MCReplies ==
  {Reply("KWP2000", "codes", CutTo(len, KwpList(n, s, t))) :
      len \in 1..9, n \in 0..3, s \in Statuses, t \in {0, 96}}
    \cup {Reply("UDS", "codes", CutTo(len, UdsList(s, t))) : len \in 1..11, s \in Statuses, t \in {1, 132}}
    \cup {Reply("KWP2000", topic, Counting(n)) : topic \in {"variant", "dates"}, n \in 1..23}
    \cup {Reply("UDS", "variant", Counting(n)) : n \in 1..7}

Service(v, list, input) == [variant |-> v, list |-> list, input |-> input]
MCServices == {Service("v1", "read", FALSE), Service("v1", "write", TRUE),
               Service("v2", "read", FALSE)}
MCMatching == "" :> MCServices @@ "r" :> {s \in MCServices : s.list = "read"}
MCLonger == {<<"", "r">>}

NoPrep == Prep("2000", "000", 0, -1, 0, 0, 2, "none")
DecodingInit ==
  /\ explored \in {"reader", "links", "formats", "values", "answers", "page"}
  /\ IF explored = "reader" THEN ReaderInit
     ELSE /\ record = Rec(DtcLayout, {}, Zeros(2), 2)
          /\ pos = record.start /\ bitflags = <<>> /\ values = <<>> /\ reading = "done"
  /\ IF explored = "links" THEN LinksInit
     ELSE /\ cbf = File(<<>>, <<>>, <<0>>, <<>>, <<>>)
          /\ step = "services" /\ services = <<>> /\ dtcs = <<>> /\ inputs = <<>>
          /\ removed = 0 /\ map = {} /\ downloads = <<>>
  /\ CASE explored = "formats" -> FormatsInit
       [] explored = "values"  ->
            /\ DecodeInit /\ prep = NoPrep /\ size = 0 /\ native = <<>> /\ convert = "none"
       [] OTHER ->
            /\ param = NoParam /\ answer = <<>> /\ text = "none" /\ number = NotAsked
            /\ prep = NoPrep /\ size = 0 /\ native = <<>> /\ convert = "none"
  /\ IF explored = "answers" THEN AnswersInit
     ELSE /\ reply = Reply("UDS", "codes", <<89>>)
          /\ left = reply.bytes /\ count = 0 /\ found = <<>> /\ decoding = "new"
  /\ JsonInit
  /\ explored # "page" => variant = "v1"

DecodingNext ==
  /\ UNCHANGED explored
  /\ \/ explored = "reader" /\ ReaderNext /\ UNCHANGED <<linkVars, formatVars, answerVars, jsonVars>>
     \/ explored = "links" /\ LinksNext /\ UNCHANGED <<readerVars, formatVars, answerVars, jsonVars>>
     \/ explored = "formats" /\ FormatsNext /\ UNCHANGED <<readerVars, linkVars, answerVars, jsonVars>>
     \/ explored = "values" /\ DecodeNext
          /\ UNCHANGED <<readerVars, linkVars, prep, size, native, convert,
                       answerVars, jsonVars>>
     \/ explored = "answers" /\ AnswersNext /\ UNCHANGED <<readerVars, linkVars, formatVars, jsonVars>>
     \/ explored = "page" /\ JsonNext /\ UNCHANGED <<readerVars, linkVars, formatVars, answerVars>>

DecodingSpec ==
  /\ DecodingInit /\ [][DecodingNext]_<<explored, readerVars, linkVars, formatVars, answerVars, jsonVars>>
=============================================================================
