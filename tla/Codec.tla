-------------------------------- MODULE Codec ---------------------------------
(***************************************************************************)
(* core/src/codec.c: datagrams are built, tagged, parsed, verified and      *)
(* decoded here, on every platform.                                         *)
(*                                                                         *)
(* What a field holds is one of three: NONE (zero), FINE (legal, and not    *)
(* zero) and ODD (with reserved bits set or out of the range its section    *)
(* gives it).  A byte of a payload is known by the field it was written     *)
(* for and its significance in it, so that a field is read back only if     *)
(* its own bytes, all of them and in order, are where the decoder looks.    *)
(*                                                                         *)
(* The second half is the two texts that cross from one device to another:  *)
(* a name or message in a field of fixed width (apad_text_set), and the     *)
(* pairing URI a server shows as a QR code and a client's camera reads      *)
(* (apad_pair_uri_build, apad_pair_uri_parse, clients/common/apad_qr.c).    *)
(* A byte of a field's text is 0 if it continues a UTF-8 character, and     *)
(* otherwise the length of the character it leads.  Of a URI the fixed      *)
(* parts are there or not, the host is known by its form, a port that is    *)
(* missing is 0 (neither is accepted, at the same place), and the query is  *)
(* a sequence of characters: its two separators, its keys, digits, others   *)
(* that may be printed, and BLANK, which may not.                           *)
(***************************************************************************)
EXTENDS Naturals, Sequences, SequencesExt, FiniteSetsExt

CONSTANTS
  MaxDatagram,   \* APAD_MAX_DATAGRAM
  LinkKeys,      \* the keys there are: the pair's own, and anybody else's
  OwnKey,        \* the key both ends of this link hold
  FieldWidth,    \* bytes of a text field, APAD_NAME_LEN or APAD_TEXT_LEN
  MaxExcess,     \* bound: by how many bytes a text exceeds its field
  MinSecret, MaxSecret,   \* APAD_SECRET_MIN_LEN, APAD_SECRET_MAX_LEN
  MaxCodes       \* bound: QR codes in one picture

ASSUME TextsAssumption ==
  /\ FieldWidth \in Nat \ {0} /\ MaxExcess \in Nat
  /\ MinSecret \in Nat \ {0} /\ MaxSecret \in Nat /\ MinSecret <= MaxSecret /\ MaxCodes \in Nat

VARIABLES
  message,    \* what the sender put into the struct, and its type and key
  datagram,   \* what is on the wire
  outcome,    \* what the receiver made of it
  meant,      \* what the sender of a text wanted to say
  text,       \* what is in the field, or on the picture the camera takes
  read        \* what the reader made of it

codecVars == <<message, datagram, outcome>>
textVars == <<meant, text, read>>

MaxPort == 65535
HeaderSize == 12
TagSize == 8
NoLinkKey == "NONE"
Untagged == [key |-> NoLinkKey, covers |-> {}]

-----------------------------------------------------------------------------
(* Layouts: name, offset, width, and how the two directions treat a value.  *)

Entry(name, i, at, width, kind) ==
  [name |-> <<name, i>>, at |-> at, width |-> width, kind |-> kind]

Field(name, at, width, kind) == Entry(name, 0, at, width, kind)

\* apad_payload_size; a type that is not in it cannot be received.
PayloadSize ==
  [DISCOVER |-> 0, ANNOUNCE |-> 40, HELLO |-> 76, WELCOME |-> 60, BYE |-> 4,
   INPUT_STATE |-> 56, KEYBOARD |-> 56, MOUSE |-> 24, MEDIA |-> 20, PING |-> 8, PONG |-> 8,
   RUMBLE |-> 8, LED |-> 4, STATUS |-> 64, TOUCHMAP |-> 68, INPUTCAPS |-> 16, ACK |-> 4,
   ERROR |-> 64]

MessageTypes == DOMAIN PayloadSize

AnnounceFields ==
  {Field("server_name", 0, 32, "RAW"), Field("pads_total", 32, 1, "RAW"),
   Field("pads_free", 33, 1, "RAW"), Field("pairing_required", 34, 1, "FLAG"),
   Field("server_port", 36, 2, "RAW")}

HelloFields ==
  {Field("client_id", 0, 16, "RAW"), Field("caps", 16, 4, "BITS"),
   Field("device_name", 20, 32, "RAW"), Field("client_nonce", 52, 16, "RAW"),
   Field("desired_rate_hz", 68, 2, "RAW"), Field("proto_major", 70, 1, "RAW"),
   Field("client_ticks_ms", 72, 4, "RAW")}

WelcomeFields ==
  {Field("session_id", 0, 2, "RAW"), Field("pad_slot", 2, 1, "RAW"), Field("flags", 3, 1, "BITS"),
   Field("input_rate_hz", 4, 2, "RAW"), Field("server_nonce", 8, 16, "RAW"),
   Field("key_material", 24, 32, "UNUSED"), Field("server_ticks_ms", 56, 4, "RAW")}

ByeFields == {Field("reason", 0, 1, "LABEL")}

PingFields == {Field("origin_ticks_ms", 0, 4, "RAW"), Field("responder_ticks_ms", 4, 4, "RAW")}

RumbleFields ==
  {Field("low_freq", 0, 2, "RAW"), Field("high_freq", 2, 2, "RAW"), Field("duration_ms", 4, 2, "RAW")}

\* A layout with more regions than the struct has is refused both ways.
TouchmapFields ==
  {Field("mode", 0, 1, "RAW"), Field("region_count", 1, 1, "REFUSED")} \cup
  {Entry("region", i, 4 + 8 * i, 8, "REGION") : i \in 0 .. 7}

LedFields ==
  {Field("player_index", 0, 1, "INDEX"), Field("r", 1, 1, "RAW"), Field("g", 2, 1, "RAW"),
   Field("b", 3, 1, "RAW")}

StatusFields == {Field("code", 0, 1, "LABEL"), Field("text", 4, 60, "RAW")}
AckFields == {Field("sequence", 0, 2, "RAW")}
ErrorFields == {Field("code", 0, 2, "LABEL"), Field("text", 4, 60, "RAW")}

InputStateFields ==
  {Field("buttons", 0, 4, "BITS"), Field("touch_count", 20, 1, "CLAMPED"),
   Field("battery", 46, 1, "BATTERY"), Field("client_ticks_ms", 52, 4, "RAW")} \cup
  {Entry("axes", i, 4 + 2 * i, 2, "RAW") : i \in 0 .. 3} \cup
  {Entry("axes", i, 4 + 2 * i, 2, "TRIGGER") : i \in 4 .. 5} \cup
  {Entry("axes", i, 4 + 2 * i, 2, "UNUSED") : i \in 6 .. 7} \cup
  {Entry("touch", i, 22 + 6 * i, 6, "TOUCH") : i \in 0 .. 1} \cup
  {Entry("accel", i, 34 + 2 * i, 2, "RAW") : i \in 0 .. 2} \cup
  {Entry("gyro", i, 40 + 2 * i, 2, "RAW") : i \in 0 .. 2}

KeyboardFields ==
  {Field("keys", 0, 32, "BITS"), Field("event_seq", 32, 2, "RAW"),
   Field("client_ticks_ms", 52, 4, "RAW")} \cup
  {Entry("event", i, 36 + 2 * i, 2, "EVENT") : i \in 0 .. 7}

MouseFields ==
  {Field("dx_accum", 0, 2, "RAW"), Field("dy_accum", 2, 2, "RAW"), Field("wheel_accum", 4, 2, "RAW"),
   Field("hwheel_accum", 6, 2, "RAW"), Field("buttons", 8, 2, "BITS"), Field("event_seq", 10, 2, "RAW"),
   Field("client_ticks_ms", 20, 4, "RAW")} \cup
  {Entry("event", i, 12 + 2 * i, 2, "EVENT") : i \in 0 .. 3}

\* Mutant: the events where the struct in memory has them, two bytes early.
MediaFieldsAsInMemory ==
  {Field("held", 0, 4, "BITS"), Field("event_seq", 4, 2, "RAW"), Field("client_ticks_ms", 14, 4, "RAW")}
  \cup {Entry("event", i, 5 + 2 * i, 2, "EVENT") : i \in 0 .. 3}

MediaFields ==
  {Field("held", 0, 4, "BITS"), Field("event_seq", 4, 2, "RAW"), Field("client_ticks_ms", 16, 4, "RAW")}
  \cup {Entry("event", i, 8 + 2 * i, 2, "EVENT") : i \in 0 .. 3}

InputcapsFields ==
  {Field("features", 0, 4, "BITS"), Field("status", 4, 4, "BITS"), Field("media_mask", 8, 4, "BITS"),
   Field("mouse_rate_hz", 12, 2, "RAW")}

Layout ==
  [DISCOVER |-> {}, ANNOUNCE |-> AnnounceFields, HELLO |-> HelloFields, WELCOME |-> WelcomeFields,
   BYE |-> ByeFields, INPUT_STATE |-> InputStateFields, KEYBOARD |-> KeyboardFields,
   MOUSE |-> MouseFields, MEDIA |-> MediaFields, PING |-> PingFields, PONG |-> PingFields,
   RUMBLE |-> RumbleFields, LED |-> LedFields, STATUS |-> StatusFields,
   TOUCHMAP |-> TouchmapFields, INPUTCAPS |-> InputcapsFields, ACK |-> AckFields,
   ERROR |-> ErrorFields]

FieldNames(type) == {f.name : f \in Layout[type]}

-----------------------------------------------------------------------------
(* Encoding and decoding.                                                   *)

\* How many entries a message says it has; all of them, or none.
EntryCount(values) ==
  CASE <<"touch_count", 0>> \in DOMAIN values -> values[<<"touch_count", 0>>]
    [] <<"region_count", 0>> \in DOMAIN values -> values[<<"region_count", 0>>]
    [] OTHER -> "FINE"

\* Reserved bits are zero on send, and negative triggers are zero.
Scrubbed(kind, value) ==
  CASE kind \in {"BITS", "FLAG", "CLAMPED", "REGION"} /\ value = "ODD" -> "FINE"
    [] kind = "TRIGGER" /\ value = "ODD" -> "NONE"
    [] OTHER -> value

Written(f, values) ==
  CASE f.kind = "UNUSED" -> "NONE"
    [] f.kind \in {"TOUCH", "REGION"} /\ EntryCount(values) = "NONE" -> "NONE"
    [] OTHER -> Scrubbed(f.kind, values[f.name])

Encodable(type, values) == \A f \in Layout[type] : f.kind = "REFUSED" => values[f.name] # "ODD"

Zero == <<"ZERO">>

\* memset, then each field where its layout says; FINE and ODD values fill
\* their bytes, and a byte two fields claim belongs to the later one.
Encode(type, values) ==
  LET owners(k) == {f \in Layout[type] :
                      f.at <= k /\ k < f.at + f.width /\ Written(f, values) # "NONE"}
      last(k) == CHOOSE f \in owners(k) : \A g \in owners(k) : g.at <= f.at
  IN  [k \in 0 .. PayloadSize[type] - 1 |->
         IF owners(k) = {} THEN Zero
         ELSE <<type, last(k).name, k - last(k).at, Written(last(k), values)>>]

\* A value in a reserved numeric range is normalised when it is read, never
\* when it is written; a label is kept as it came.
Normalised(f, value) ==
  CASE f.kind \in {"RAW", "TOUCH", "BATTERY"} /\ value = "ODD" -> "FINE"
    [] f.kind \in {"INDEX", "EVENT"} /\ value = "ODD" -> "NONE"
    [] f.kind = "REGION" -> value
    [] OTHER -> Scrubbed(f.kind, value)

\* Bytes that are not the field's own, in order, may be anything.
Found(f, type, bytes) ==
  LET own(value) == \A i \in 0 .. f.width - 1 : bytes[f.at + i] = <<type, f.name, i, value>>
  IN  CASE \A i \in 0 .. f.width - 1 : bytes[f.at + i] = Zero -> "NONE"
        [] own("FINE") -> "FINE"
        [] OTHER -> "ODD"

Decode(type, bytes) ==
  LET found == [name \in FieldNames(type) |->
                  LET f == CHOOSE f \in Layout[type] : f.name = name
                  IN  IF f.kind = "UNUSED" THEN "NONE" ELSE Normalised(f, Found(f, type, bytes))]
  IN  [name \in FieldNames(type) |->
         IF <<"touch", 0>> \in FieldNames(type) /\ name \in {<<"touch", 0>>, <<"touch", 1>>}
              /\ EntryCount(found) = "NONE"
           THEN "NONE" ELSE found[name]]

Decodable(type, bytes) ==
  \A f \in Layout[type] : f.kind = "REFUSED" => Found(f, type, bytes) # "ODD"

-----------------------------------------------------------------------------
(* Framing.                                                                 *)

\* The tag covers the header and the payload.
Tag(key, d) == [key |-> key, covers |-> {[d EXCEPT !.tag = Untagged]}]

Signed(d, key) == IF key = NoLinkKey THEN d ELSE [d EXCEPT !.tag = Tag(key, d)]

\* apad_packet_build: the AUTHENTICATED flag follows the key, whatever the
\* caller's header says.
Build(type, bytes, key) ==
  Signed([magic |-> TRUE, version |-> TRUE, type |-> type, payload_len |-> PayloadSize[type],
          auth |-> key # NoLinkKey, bytes |-> bytes, tag |-> Untagged,
          len |-> HeaderSize + PayloadSize[type] + (IF key = NoLinkKey THEN 0 ELSE TagSize)], key)

\* apad_packet_parse: the checks of section 3.1, in their order.
Parse(d) ==
  LET framed == HeaderSize + d.payload_len + (IF d.auth THEN TagSize ELSE 0)
  IN  CASE d.len < HeaderSize -> "TRUNCATED"
        [] d.len >= HeaderSize /\ ~d.magic -> "MAGIC"
        [] d.len >= HeaderSize /\ d.magic /\ ~d.version -> "VERSION"
        [] OTHER ->
             CASE d.len # framed -> "LENGTH"
               [] d.len = framed /\ d.type \notin MessageTypes -> "TYPE"
               [] OTHER ->
                    IF d.len > MaxDatagram \/ d.payload_len # PayloadSize[d.type]
                      THEN "LENGTH" ELSE "OK"

\* Mutant: the payload alone is compared, so the header can be another's.
VerifiesPayload(d, key) == d.auth /\ d.tag.key = key /\ \E c \in d.tag.covers : c.bytes = d.bytes

\* apad_packet_verify, of a datagram that was parsed.
Verifies(d, key) == d.auth /\ d.tag = Tag(key, d)

-----------------------------------------------------------------------------
(* A sender, a wire that may change one thing, and a receiver.              *)

Conforming == {"NONE", "FINE"}

\* One field is not like the others.
Messages ==
  UNION {[type : {type}, key : {NoLinkKey, OwnKey},
          values : {[name \in FieldNames(type) |-> usual] : usual \in Conforming} \cup
                   {[[name \in FieldNames(type) |-> "FINE"] EXCEPT ![other] = value] :
                       other \in FieldNames(type), value \in {"NONE", "ODD"}}]
         : type \in MessageTypes}

CodecInit ==
  /\ message \in {m \in Messages : Encodable(m.type, m.values)}
  /\ datagram = Build(message.type, Encode(message.type, message.values), message.key)
  /\ outcome = [at |-> "SENT", code |-> "NONE", verified |-> FALSE, values |-> <<>>]

\* A byte changed, a header field changed, a piece cut off, a tag of one's own.
Tampered(d) ==
  {[d EXCEPT !.magic = FALSE], [d EXCEPT !.version = FALSE], [d EXCEPT !.auth = ~@],
   [d EXCEPT !.type = "UNKNOWN"], [d EXCEPT !.payload_len = @ + 1], [d EXCEPT !.len = @ - 1],
   [d EXCEPT !.len = HeaderSize - 1],
   [d EXCEPT !.len = MaxDatagram + 1,
             !.payload_len = MaxDatagram + 1 - HeaderSize - (IF d.auth THEN TagSize ELSE 0)],
   [d EXCEPT !.auth = FALSE, !.tag = Untagged, !.len = HeaderSize + d.payload_len]} \cup
  {[d EXCEPT !.type = type] : type \in {t \in MessageTypes : PayloadSize[t] = d.payload_len}} \cup
  {[d EXCEPT !.bytes[k] = <<"CHANGED">>] : k \in DOMAIN d.bytes} \cup
  {Signed([d EXCEPT !.auth = TRUE, !.len = HeaderSize + d.payload_len + TagSize, !.tag = Untagged], key) :
      key \in LinkKeys \ {OwnKey}}

Tamper ==
  /\ outcome.at = "SENT"
  /\ datagram' \in Tampered(datagram)
  /\ outcome' = [outcome EXCEPT !.at = "TAMPERED"]
  /\ UNCHANGED message

\* A receiver: parse, verify what claims a tag, decode.
Take ==
  /\ outcome.at \in {"SENT", "TAMPERED"}
  /\ LET code == Parse(datagram)
         verified == code = "OK" /\ Verifies(datagram, OwnKey)
         refused == datagram.auth /\ ~verified
         decodes == Decodable(datagram.type, datagram.bytes)
     IN  outcome' =
           CASE code # "OK" -> [outcome EXCEPT !.at = "REFUSED", !.code = code]
             [] code = "OK" /\ refused -> [outcome EXCEPT !.at = "REFUSED", !.code = "AUTH"]
             [] code = "OK" /\ ~refused /\ ~decodes -> [outcome EXCEPT !.at = "REFUSED", !.code = "ARG"]
             [] OTHER -> [outcome EXCEPT !.at = "READ", !.code = "OK", !.verified = verified,
                            !.values = Decode(datagram.type, datagram.bytes)]
  /\ UNCHANGED <<message, datagram>>

CodecNext == Tamper \/ Take

CodecSpec == CodecInit /\ [][CodecNext]_codecVars

-----------------------------------------------------------------------------

Meant(type, values, name) ==
  LET f == CHOOSE f \in Layout[type] : f.name = name
  IN  CASE f.kind = "UNUSED" -> "NONE"
        [] f.kind \in {"TOUCH", "REGION"} /\ EntryCount(values) = "NONE" -> "NONE"
        [] OTHER -> values[name]

Untouched ==
  datagram = Build(message.type, Encode(message.type, message.values), message.key)

\* What is read under the pair's key, and what is read untouched, is the
\* message that was sent, field by field; a datagram that was tampered with is
\* never taken for the pair's own, and nothing conforming is refused on the way;
\* and whoever sent it, no reserved value reaches the reader, except in a label
\* (codec.c 301-505 and the encoder and decoder of every type).
ReadAsSent ==
  /\ outcome.at = "READ" /\ (outcome.verified \/ Untouched) =>
       /\ datagram.type = message.type
       /\ \A name \in FieldNames(message.type) :
            message.values[name] \in Conforming =>
              outcome.values[name] = Meant(message.type, message.values, name)
  /\ outcome.at = "REFUSED" => ~Untouched
  /\ outcome.at = "READ" =>
       \A f \in Layout[datagram.type] :
         f.kind \notin {"LABEL", "REGION"} => outcome.values[f.name] # "ODD"
-----------------------------------------------------------------------------
(* Text fields.                                                              *)

\* The last character that begins among the last three bytes is dropped whole
\* if it does not fit; bytes that are no characters are cut as they are.
TruncPoint(field) ==
  LET leads == {k \in DOMAIN field : k + 2 >= Len(field) /\ field[k] # 0}
  IN  IF leads = {} \/ Max(leads) + field[Max(leads)] - 1 <= Len(field)
        THEN Len(field) ELSE Max(leads) - 1

TextSet(bytes) ==
  IF Len(bytes) <= FieldWidth THEN bytes
  ELSE SubSeq(bytes, 1, TruncPoint(SubSeq(bytes, 1, FieldWidth)))

-----------------------------------------------------------------------------
(* The pairing URI.                                                          *)

BuildsUri(s) ==
  /\ s.port # 0
  /\ Len(s.secret) \in MinSecret .. MaxSecret
  /\ Range(s.secret) \cap {"BLANK", "&", "#"} = {}

UriBuilt(s) ==
  [fits |-> TRUE, scheme |-> TRUE, host |-> s.host, port |-> s.port, template |-> TRUE,
   query |-> <<"v", "=", "1", "&", "s", "=">> \o s.secret]

\* The segments between the '&'s, and of each its key and its value.
Segments(query) ==
  LET cuts == {0, Len(query) + 1} \cup {k \in DOMAIN query : query[k] = "&"}
      next(c) == Min({k \in cuts : k > c})
  IN  {<<c, SubSeq(query, c + 1, next(c) - 1)>> : c \in cuts \ {Len(query) + 1}}

EqualsAt(segment) == {k \in DOMAIN segment : segment[k] = "="}
KeyOf(segment) ==
  IF EqualsAt(segment) = {} THEN segment ELSE SubSeq(segment, 1, Min(EqualsAt(segment)) - 1)
ValueOf(segment) == SubSeq(segment, Min(EqualsAt(segment)) + 1, Len(segment))

WithKey(query, key) == {seg \in Segments(query) : KeyOf(seg[2]) = <<key>>}
TheValue(query, key) == ValueOf((CHOOSE seg \in WithKey(query, key) : TRUE)[2])

\* Read as far as every version of the format must agree on: no empty segment,
\* no key that counts twice or without a value, and a version number.
Scans(u) ==
  /\ u.fits /\ u.scheme /\ u.template
  /\ \A seg \in Segments(u.query) : Len(KeyOf(seg[2])) > 0
  /\ \A key \in {"v", "s"} :
       /\ \A seg, other \in WithKey(u.query, key) : seg = other
       /\ \A seg \in WithKey(u.query, key) : EqualsAt(seg[2]) # {}
  /\ WithKey(u.query, "v") # {}
  /\ LET version == TheValue(u.query, "v") IN version # <<>> /\ Range(version) \subseteq {"1", "2"}

ReadableSecret(secret) ==
  Len(secret) \in MinSecret .. MaxSecret /\ "BLANK" \notin Range(secret)

UriParse(u) ==
  CASE ~Scans(u) -> "ARG"
    [] Scans(u) /\ TheValue(u.query, "v") # <<"1">> -> "VERSION"
    [] OTHER ->
         IF /\ u.port \in 1 .. MaxPort /\ u.host = "QUAD"
            /\ WithKey(u.query, "s") # {} /\ ReadableSecret(TheValue(u.query, "s"))
           THEN "OK" ELSE "ARG"

UriRead(u) == [host |-> u.host, port |-> u.port, secret |-> TheValue(u.query, "s")]

-----------------------------------------------------------------------------
(* A sender, and a reader of what arrives.                                   *)

Bytes == UNION {[1 .. n -> 0 .. 4] : n \in 0 .. FieldWidth + MaxExcess}

Letters == {"v", "1", "=", "&", "#", "BLANK"}
Secrets == UNION {[1 .. n -> Letters] : n \in MinSecret - 1 .. MaxSecret + 1}

ServerShows == [host : {"QUAD"}, port : {0, 1, MaxPort}, secret : Secrets]

\* A URI of a later version of the format: its host may be a name, its port
\* missing a meaning, its secret of another kind, its keys in another order.
LaterUris ==
  [fits : {TRUE}, scheme : {TRUE}, host : {"QUAD", "NAME"}, port : {0, 1, MaxPort + 1},
   template : {TRUE},
   query : {<<"v", "=", "2">>, <<"v", "=", "1", "2", "&", "s", "=", "BLANK">>,
            <<"s", "=", "x", "&", "v", "=", "2", "&", "x">>}]

\* Another picture than the server's: one thing about it is different.
Damaged(u) ==
  {[u EXCEPT !.fits = FALSE], [u EXCEPT !.scheme = FALSE], [u EXCEPT !.template = FALSE],
   [u EXCEPT !.host = "NAME"], [u EXCEPT !.port = 0], [u EXCEPT !.port = MaxPort + 1]} \cup
  {[u EXCEPT !.query = RemoveAt(@, k)] : k \in DOMAIN u.query} \cup
  {[u EXCEPT !.query = ReplaceAt(@, k, c)] : k \in DOMAIN u.query, c \in Letters \cup {"2"}} \cup
  {[u EXCEPT !.query = InsertAt(@, k, c)] : k \in DOMAIN u.query, c \in Letters \cup {"2"}}

Nothing == [at |-> "NOWHERE"]

TextsInit ==
  /\ meant \in [kind : {"FIELD"}, bytes : Bytes] \cup [kind : {"URI"}, of : ServerShows]
               \cup [kind : {"LATER"}, uri : LaterUris]
  /\ meant.kind = "URI" => BuildsUri(meant.of)
  /\ text = CASE meant.kind = "FIELD" -> TextSet(meant.bytes)
              [] meant.kind = "URI" -> <<UriBuilt(meant.of)>>
              [] OTHER -> <<meant.uri>>
  /\ read = Nothing

\* The camera takes a picture of something else, or of several codes at once;
\* a code that cannot be made out is not there.
Pictured ==
  /\ read = Nothing /\ meant.kind = "URI" /\ text = <<UriBuilt(meant.of)>>
  /\ \/ \E u \in Damaged(text[1]) : text' = <<u>>
     \/ Len(text) < MaxCodes /\ \E u \in LaterUris : text' \in {<<u>> \o text, text \o <<u>>}
  /\ UNCHANGED <<meant, read>>

\* apad_qr_decode: the first code that parses is taken, and otherwise the last
\* one says why there is none.
Scan ==
  /\ read = Nothing /\ meant.kind # "FIELD"
  /\ LET good == {k \in DOMAIN text : UriParse(text[k]) = "OK"}
     IN  read' = IF good = {} THEN [at |-> "REFUSED", code |-> UriParse(text[Len(text)])]
                 ELSE [at |-> "READ", of |-> UriRead(text[Min(good)])]
  /\ UNCHANGED <<meant, text>>

TextsNext == Pictured \/ Scan

TextsSpec == TextsInit /\ [][TextsNext]_textVars

-----------------------------------------------------------------------------

\* Bytes that are whole characters from beginning to end.
Whole(bytes) ==
  /\ bytes # <<>> => bytes[1] # 0
  /\ \A k \in DOMAIN bytes : bytes[k] # 0 =>
       LET next == k + bytes[k]
       IN  /\ next <= Len(bytes) + 1
           /\ \A j \in k + 1 .. next - 1 : bytes[j] = 0
           /\ next <= Len(bytes) => bytes[next] # 0

\* A field holds as many of the text's characters as fit into it, and no part
\* of one (codec.c 128-221).
KeepsCharacters ==
  meant.kind = "FIELD" /\ Whole(meant.bytes) =>
    Len(text) = Max({n \in 0 .. Len(meant.bytes) : n <= FieldWidth /\ Whole(SubSeq(meant.bytes, 1, n))})

\* What is scanned from the server's own picture is its address and secret,
\* character for character; with another code beside it still is.
ScansWhatIsShown ==
  read # Nothing /\ meant.kind = "URI" /\ (\E k \in DOMAIN text : text[k] = UriBuilt(meant.of)) =>
    read = [at |-> "READ", of |-> meant.of]

\* Of no picture is a part taken for the whole: what is read is one secret, as
\* the builder could have written it or with a '#' in it, and the URI of a newer
\* server is always reported as newer, whatever else cannot be made out of it.
NoPartialReading ==
  /\ read # Nothing /\ read.at = "READ" =>
       /\ \E u \in Range(text) :
            /\ u = [UriBuilt(read.of) EXCEPT !.query = u.query]
            /\ TheValue(u.query, "v") = <<"1">>
            /\ \A seg \in WithKey(u.query, "s") : ValueOf(seg[2]) = read.of.secret
       /\ BuildsUri(read.of) \/ "#" \in Range(read.of.secret)
  /\ read # Nothing /\ meant.kind = "LATER" => read = [at |-> "REFUSED", code |-> "VERSION"]

\* A text that crosses from one device to another means there what it meant here
\* (codec.c 128-221 and 1280-1622, apad_qr.c 46-112).
TextsReadBack == KeepsCharacters /\ ScansWhatIsShown /\ NoPartialReading
=============================================================================
