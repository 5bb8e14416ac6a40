----------------------------- MODULE SerdeTrip -----------------------------
(***************************************************************************)
(* The trip of one value: serialized, put on the wire by its service's     *)
(* codec, perhaps changed by a peer that knows another version of the      *)
(* model (or none), decoded and deserialized.                              *)
(***************************************************************************)
EXTENDS Serde

CONSTANTS
  Models,      \* service |-> [types, serdes, codec]
  Junk         \* what a careless peer may put in a member's place

VARIABLES
  model,    \* the service
  shape,    \* a structure or union of it
  value,    \* the value sent, forgotten when the wire holds another
  wire,     \* the document between the two ends, or a failure
  change,   \* "none", "extra" (an unknown member added), "form" (another
            \* encoding of the same), "broken" (no document), "other", or
            \* "relayed": a value accepted after such a change, sent on
  got,      \* what the receiver makes of it
  stage

tripVars == <<model, shape, value, wire, change, got, stage>>

-----------------------------------------------------------------------------
(* One document away: a member removed, replaced, or an unknown one added, *)
(* or such a change in one of the values inside.                           *)
RECURSIVE Changed(_)
Changed(doc) ==
  CASE doc[1] = "map" ->
         {MapDoc(Without(doc[2], k)) : k \in DOMAIN doc[2]}
           \cup {MapDoc(With(doc[2], k, j)) : k \in DOMAIN doc[2], j \in Junk}
           \cup {MapDoc(With(doc[2], "unheard", Text("v")))}
           \cup UNION {{MapDoc(With(doc[2], k, d)) : d \in Changed(doc[2][k])} : k \in DOMAIN doc[2]}
    [] doc[1] = "list" ->
         {ListDoc(Append(doc[2], Null))}
           \cup UNION {{ListDoc([doc[2] EXCEPT ![i] = d]) : d \in Changed(doc[2][i])} : i \in DOMAIN doc[2]}
    [] OTHER -> {}

(* The same document as another CBOR encoder may write it: a length left   *)
(* open, a string in chunks, undefined for null, a tag nobody knows.       *)
Spliced(s, from, to, items) == SubSeq(s, 1, from - 1) \o items \o SubSeq(s, to, Len(s))

OtherForms(s) ==
  LET at(kinds) == {i \in DOMAIN s : s[i][1] \in kinds}
      end(i)    == DecodeValue(s, i, CborDepth)[3]
      empty(k)  == IF k = "text" THEN <<"text", <<"text", "">>>> ELSE <<"bytes", "">>
  IN  {Spliced(s, i, end(i), <<<<s[i][1], Indefinite>>>> \o SubSeq(s, i + 1, end(i) - 1) \o <<Break>>) :
         i \in at({"array", "map"})}
      \cup {Spliced(s, i, i + 1, <<<<"chunks", s[i][1]>>, empty(s[i][1]), s[i], Break>>) :
              i \in at({"text", "bytes"})}
      \cup {Spliced(s, i, i + 1, <<<<"simple", "undefined">>>>) :
              i \in {j \in at({"simple"}) : s[j][2] = "null"}}
      \cup IF DecodeValue(s, 1, CborDepth - 1) = Failed THEN {}
           ELSE {Spliced(s, i, i, <<<<"tag", 42>>>>) : i \in DOMAIN s}

\* What is no message any more: cut short, with something after its end, a
\* break or an integer past int64 in a value's place, chunks of two kinds, a
\* time that is no number.
Broken(s) ==
  {SubSeq(s, 1, n) : n \in 0 .. Len(s) - 1} \cup {Append(s, <<"simple", "null">>)}
    \cup {[s EXCEPT ![i] = Break] : i \in DOMAIN s}
    \cup {[s EXCEPT ![i] = <<"int", <<9, 0>>>>] : i \in {j \in DOMAIN s : s[j][1] = "int"}}
    \cup UNION {{Spliced(s, i, i + 1, <<<<"chunks", "bytes">>, s[i], Break>>), Spliced(s, i, i, <<<<"tag", 1>>>>)} :
                  i \in {j \in DOMAIN s : s[j][1] = "text"}}

Codec == Models[model]

Sampled == Samples(Codec, Ref(shape), SampleDepth)

TripInit ==
  /\ model \in DOMAIN Models
  /\ shape \in {s \in DOMAIN Codec.types : Codec.types[s][1] \in {"struct", "union"}}
  /\ value = <<>> /\ wire = Failed /\ got = Failed
  /\ change = "none"
  /\ stage = "chosen"

Build ==
  /\ stage = "chosen"
  /\ value' \in Sampled
  /\ stage' = "built"
  /\ UNCHANGED <<model, shape, wire, change, got>>

Send ==
  /\ stage = "built"
  /\ wire' = OnWire(Codec, Serialize(Codec, Ref(shape), value))
  /\ stage' = "sent"
  /\ UNCHANGED <<model, shape, value, change, got>>

\* A peer that knows more members, or that does not know the model.
Evolve ==
  /\ stage = "sent" /\ change = "none" /\ wire # Failed
  /\ \E extra \in {"unheard", "__type"} :
       /\ wire[2][1] = "map" /\ extra \notin DOMAIN wire[2][2]
       /\ wire' = Ok(MapDoc(With(wire[2][2], extra, Text("v"))))
  /\ change' = "extra"
  /\ UNCHANGED <<model, shape, value, got, stage>>

Garble ==
  /\ stage = "sent" /\ change = "none" /\ wire # Failed
  /\ \E d \in Changed(wire[2]) : wire' = Ok(d)
  /\ change' = "other" /\ value' = <<>>
  /\ UNCHANGED <<model, shape, got, stage>>

\* A peer with a CBOR encoder of its own, or a connection that lost bytes.
Reframe ==
  /\ stage = "sent" /\ change = "none" /\ wire # Failed /\ Codec.codec = "cbor"
  /\ LET sent == EncodeValue(wire[2])
     IN  \/ /\ \E s \in OtherForms(sent) : wire' = Decode(s)
            /\ change' = "form" /\ UNCHANGED value
         \/ /\ \E s \in Broken(sent) : wire' = Decode(s)
            /\ change' = "broken" /\ value' = <<>>
  /\ UNCHANGED <<model, shape, got, stage>>

Receive ==
  /\ stage = "sent"
  /\ got' = IF wire = Failed THEN Failed ELSE Deserialize(Codec, Ref(shape), wire[2])
  /\ stage' = "received"
  /\ UNCHANGED <<model, shape, value, wire, change>>

\* The receiver passes on what it accepted.
Relay ==
  /\ stage = "received" /\ change \in {"extra", "other"} /\ got # Failed
  /\ value' = got[2] /\ wire' = Failed /\ got' = Failed
  /\ change' = "relayed"
  /\ stage' = "built"
  /\ UNCHANGED <<model, shape>>

TripNext == Build \/ Send \/ Evolve \/ Garble \/ Reframe \/ Receive \/ Relay

TripSpec == TripInit /\ [][TripNext]_tripVars

-----------------------------------------------------------------------------
\* A date-time text whose local year has four digits and whose instant has
\* not.
RECURSIVE OffsetLeadsOut(_)
OffsetLeadsOut(doc) ==
  CASE doc[1] \in {"list", "map"} -> \E k \in DOMAIN doc[2] : OffsetLeadsOut(doc[2][k])
    [] doc[1] = "str" /\ doc[2] = "date-time" ->
         Representable(doc[3][1]) /\ ~Representable(doc[3][1] - doc[3][2])
    [] OTHER -> FALSE

\* Every value of every shape arrives as it was sent, every member of
\* types.h included and nothing added, up to what Kept names, and a CBOR
\* message arrives the same in every other encoding of the same document.
\* So does a value that was accepted from a careless peer and is sent on.
\* Refused, and refused cleanly, are nesting past the decoder's limit, a
\* CBOR message that is cut short, padded or malformed, and an instant
\* outside the years 0000 to 9999, which formats to unparsable text or to a
\* number out of range (the Serialize and Deserialize functions of serde.cc,
\* json.cc, cbor.cc, timestamp.cc).
RoundTrip ==
  stage = "received" =>
    /\ change \in {"none", "form", "relayed"} =>
         IF wire = Failed \/ ~Carries(Codec, Ref(shape), value) THEN got = Failed
         ELSE got = Ok(Kept(Codec, Ref(shape), value))
    /\ change = "form" => wire # Failed
    /\ change = "broken" => got = Failed

\* A message of a peer with another model version or of none: an unknown
\* member or a type hint changes nothing in a structure, a union still has
\* exactly one member, and whatever is accepted has all its required members
\* and is itself a value that the same code can send (no reader accepts what
\* the writer could not have meant; that it survives is RoundTrip).  One text breaks that: a
\* date-time whose offset leads out of the years 0000 to 9999 is accepted,
\* as ParseDateTime checks the local year only, and cannot be sent on; a
\* number never leads there (FromEpochSecondsChecked).
AcceptedIsSound ==
  stage = "received" /\ change \in {"extra", "other"} =>
    LET s == Codec.serdes[shape]
        same == Carries(Codec, Ref(shape), value) => got = Ok(Kept(Codec, Ref(shape), value))
    IN  /\ change = "extra" /\ s[1] = "structure" => same
        /\ change = "extra" /\ s[1] = "tagged" /\ "__type" \in DOMAIN wire[2][2] /\ ~(s[3] /\ value[1] = "other")
             => same
        /\ change = "extra" /\ s[1] = "tagged" /\ "unheard" \in DOMAIN wire[2][2] /\ ~s[3] => got = Failed
        /\ got # Failed =>
             /\ s[1] = "structure" =>
                  \A i \in DOMAIN s[2] : s[2][i][1] = "required" => Present(wire[2], s[2][i][2])
             /\ Carries(Codec, Ref(shape), got[2]) \/ OffsetLeadsOut(wire[2])

=============================================================================
