------------------------------- MODULE EncapST -------------------------------
(***************************************************************************)
(* The streaming telemetry framing of encap_st.go on a byte stream: a      *)
(* fixed size header announces encapsulation and length of the payload     *)
(* that follows.  Lengths are counted in units.                            *)
(***************************************************************************)
EXTENDS Naturals, FiniteSets

CONSTANTS
  HdrSize,      \* ENC_ST_HDR_MSG_SIZE
  MaxPayload    \* ENC_ST_MAX_PAYLOAD

ASSUME EncapAssumption == HdrSize \in Nat \ {0} /\ MaxPayload \in Nat \ {0}

Encap == {"UNSED", "GPB", "JSON", "GPB_COMPACT", "GPB_KV"}
Codec == {"none", "gpb", "json", "gpbcompact", "gpbkv"}

Header    == [encap : Encap, len : 0 .. MaxPayload + 1, flag : {"none", "zlib"}]
Parser    == [state : {"hdr", "data"}, size : 0 .. MaxPayload, codec : Codec]
NewParser == [state |-> "hdr", size |-> 0, codec |-> "none"]

(* The types of messages, by the stream type they report. *)
MsgKind == {"gpb", "json", "gnmi"}

(* Of the stream type a message reports; gNMI reports dMStreamMsgDefault. *)
dataMsgStreamTypeToEncoding(kind) == IF kind \in {"gpb", "json"} THEN kind ELSE "error"

encapSTFromEncoding(enc) == CASE enc = "gpb"   -> "GPB"
                              [] enc = "json"  -> "JSON"
                              [] enc = "gpbkv" -> "GPB_KV"
                              [] OTHER         -> "UNSED"   \* an error

EncapOf(kind) == encapSTFromEncoding(dataMsgStreamTypeToEncoding(kind))

(* cacheCodec *)
CodecFor(encap) == CASE encap = "GPB"         -> "gpb"
                     [] encap = "JSON"        -> "json"
                     [] encap = "GPB_COMPACT" -> "gpbcompact"
                     [] encap = "GPB_KV"      -> "gpbkv"
                     [] OTHER                 -> "none"

(* nextBlockBuffer: the size of the next read, 0 for an error *)
NextBlockSize(p) == IF p.state = "hdr" THEN HdrSize ELSE p.size

(* nextBlock on a header: it is refused, or says what to read next. *)
HeaderOK(hdr) ==
  CodecFor(hdr.encap) # "none" /\ hdr.len <= MaxPayload /\ hdr.flag = "none"
(* Faulty: a codec once cached is kept. *)
AfterHeaderStaleCodec(p, hdr) ==
  [state |-> "data", size |-> hdr.len,
   codec |-> IF p.codec = "none" THEN CodecFor(hdr.encap) ELSE p.codec]

AfterHeader(p, hdr) ==
  [state |-> "data", size |-> hdr.len, codec |-> CodecFor(hdr.encap)]

(* nextBlock on a payload; the codec stays cached. *)
AfterData(p) == [p EXCEPT !.state = "hdr", !.size = 0]

=============================================================================
