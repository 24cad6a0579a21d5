----------------------------- MODULE ObjectKeys -----------------------------
(***************************************************************************)
(* Stable object keys (lib.rs): how an identifier is written as one text,  *)
(* how the text is read back, and the form in which two snapshots compare  *)
(* (schema_diff.rs).                                                       *)
(*                                                                         *)
(* A text is a sequence of characters, an optional one a sequence of at    *)
(* most one text, and the result of parsing a set of at most one key.  The *)
(* state is one key and, once the graph builder has written it, its text.  *)
(***************************************************************************)
EXTENDS Naturals, Sequences, FiniteSets, SequencesExt

CONSTANTS
    KeyPart,    \* texts used as alias, name and sub-object
    Place,      \* texts used as source kind, database and schema
    KindText    \* the texts of the object kinds

ASSUME KeyAssumption ==
    \A t \in KeyPart \union Place \union KindText : t # <<>>

VARIABLES
    key,        \* the key of an object
    written     \* its text, once written

keyVars == <<key, written>>

ObjectKey ==
    [source_kind : Place, connection_alias : KeyPart, database : Place,
     schema : Place, object_kind : KindText, object_name : KeyPart,
     sub_object : {<<>>} \union {<<t>> : t \in KeyPart}]

-----------------------------------------------------------------------------
(* Writing.                                                                *)

Parts(k) ==
    <<k.source_kind, k.connection_alias, k.database, k.schema,
      k.object_kind, k.object_name>> \o k.sub_object

(* Variant: the escape character is not escaped.                           *)
WriteColonsOnly(text) ==
    FlattenSeq([i \in 1 .. Len(text) |->
        IF text[i] = ":" THEN <<"%", "3", "A">> ELSE <<text[i]>>])

(* write_object_key_part. *)
WriteObjectKeyPart(text) ==
    FlattenSeq([i \in 1 .. Len(text) |->
        CASE text[i] = "%" -> <<"%", "2", "5">>
          [] text[i] = ":" -> <<"%", "3", "A">>
          [] OTHER -> <<text[i]>>])

Version == <<"v", "2", ":">>

(* Display: escaped, with the version in front, only when it must be.      *)
Display(k) ==
    LET parts == Parts(k)
        versioned == \E i \in 1 .. Len(parts) :
                         ToSet(parts[i]) \intersect {":", "%"} # {}
        part(i) == IF versioned THEN WriteObjectKeyPart(parts[i])
                   ELSE parts[i]
    IN (IF versioned THEN Version ELSE <<>>)
           \o FlattenSeq([i \in 1 .. Len(parts) |->
                  (IF i = 1 THEN <<>> ELSE <<":">>) \o part(i)])

-----------------------------------------------------------------------------
(* Reading.                                                                *)

(* value.split(':'). *)
Split(text) ==
    LET cuts == {0, Len(text) + 1} \union
                {i \in 1 .. Len(text) : text[i] = ":"}
        cut(n) == CHOOSE c \in cuts :
                      Cardinality({d \in cuts : d < c}) = n
    IN [n \in 1 .. Cardinality(cuts) - 1 |->
            SubSeq(text, cut(n - 1) + 1, cut(n) - 1)]

(* The character an escape stands for.                                     *)
Escaped(text) ==
    CASE text = <<"2", "5">> -> {"%"}
      [] text \in {<<"3", "A">>, <<"3", "a">>} -> {":"}
      [] OTHER -> {}

(* decode_object_key_part: D[i] is what the text from i on decodes to.     *)
DecodeObjectKeyPart(text) ==
    LET D[i \in 1 .. Len(text) + 3] ==
            IF i > Len(text) THEN {<<>>}
            ELSE IF text[i] # "%" THEN {<<text[i]>> \o rest : rest \in D[i + 1]}
            ELSE IF i + 2 > Len(text) THEN {}
            ELSE {<<c>> \o rest :
                     c \in Escaped(SubSeq(text, i + 1, i + 2)),
                     rest \in D[i + 3]}
    IN D[1]

(* parse_object_key_parts. *)
ParseObjectKeyParts(text, encoded) ==
    LET raw == Split(text)
        decoded == [i \in 1 .. Len(raw) |->
                       IF encoded THEN DecodeObjectKeyPart(raw[i])
                       ELSE {raw[i]}]
        part(i) == CHOOSE t \in decoded[i] : TRUE
    IN IF \/ Len(raw) \notin {6, 7}
          \/ \E i \in 1 .. Len(raw) :
                 raw[i] = <<>> \/ decoded[i] \subseteq {<<>>}
          \/ part(5) \notin KindText
       THEN {}
       ELSE {[source_kind |-> part(1), connection_alias |-> part(2),
              database |-> part(3), schema |-> part(4),
              object_kind |-> part(5), object_name |-> part(6),
              sub_object |-> IF Len(raw) = 7 THEN <<part(7)>> ELSE <<>>]}

(* ObjectKey::from_str. *)
FromStr(text) ==
    IF IsPrefix(Version, text)
    THEN ParseObjectKeyParts(SubSeq(text, 4, Len(text)), TRUE)
    ELSE ParseObjectKeyParts(text, FALSE)

(* comparable_object_key: a text that is no key is compared as it is.      *)
ComparableObjectKey(text) ==
    LET keys == FromStr(text)
    IN IF keys = {} THEN text
       ELSE Display([(CHOOSE k \in keys : TRUE)
                        EXCEPT !.connection_alias = <<"_">>])

-----------------------------------------------------------------------------
KeyInit ==
    /\ key \in ObjectKey
    /\ written = <<>>

(* The graph builder stores an object under its key.                       *)
WriteKey ==
    /\ written = <<>>
    /\ written' = Display(key)
    /\ UNCHANGED key

KeyNext == WriteKey

-----------------------------------------------------------------------------
(* Properties.                                                             *)

(* Whatever characters an identifier has, its key is read back as the      *)
(* identifier, so no two identifiers share a key; and the text compared by *)
(* a diff is the same under every alias, without becoming that of another  *)
(* object.                                                                 *)
KeysRoundTrip ==
    written # <<>> =>
        /\ FromStr(written) = {key}
        /\ \A alias \in KeyPart :
               ComparableObjectKey(
                   Display([key EXCEPT !.connection_alias = alias]))
                   = ComparableObjectKey(written)
        /\ FromStr(ComparableObjectKey(written))
               = {[key EXCEPT !.connection_alias = <<"_">>]}
=============================================================================
