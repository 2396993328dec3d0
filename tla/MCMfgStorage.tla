---------------------------- MODULE MCMfgStorage ----------------------------
(***************************************************************************)
(* An instance of MfgStorage for TLC: factory data of both versions, with  *)
(* and without each of two values and two keys, padded or not.              *)
(***************************************************************************)
EXTENDS MfgStorage, Functions, FiniteSetsExt

E(type, size) == [type |-> type, size |-> size]

(* Odd sizes need padding. Converted, the last two have payload where the   *)
(* raw parser looks for the header behind their first value.                *)
Values == {<<E("smsn", 1)>>, <<E("apid", 2)>>, <<E("smsn", 1), E("apid", 2)>>,
           <<E("apid", 1), E("smsn", 3)>>, <<E("smsn", 1), E("apid", 3)>>}

(* Padded, these leave no room for the flags, or for the last value.        *)
Filling == {<<E("smsn", 3), E("apid", 3), E("serial", 3)>>,
            <<E("smsn", 3), E("apid", 3), E("serial", 3), E("cert", 1)>>}
Entries ==
    {<<E("ed25519", size)>> \o v : size \in {2, 3}, v \in Values}
      \cup {v \o <<E("ed25519", 2), E("p256r1", 1)>> : v \in Values}
      \cup {<<E("ed25519", 2)>> \o v : v \in Filling}

At(e, offset) == [type |-> e.type, size |-> e.size, offset |-> offset]

OffsetTable ==
    <<At(E("apid", 2), 1), At(E("ed25519", 2), 3), At(E("p256r1", 1), 5), At(E("smsn", 1), 7)>>

(* Version 8: one after the other. Version 7: as in the table.             *)
Raw(es) ==
    LET size == [i \in 1 .. Len(es) |-> es[i].size]
    IN  [i \in 1 .. Len(es) |-> At(es[i], i + SumFunctionOnSet(size, 1 .. i - 1))]
Fixed(es) ==
    [i \in 1 .. Len(es) |-> At(es[i], CHOOSE o \in 0 .. 7 : At(es[i], o) \in Range(OffsetTable))]
InTable(es) == \A i \in 1 .. Len(es) : \E o \in 0 .. 7 : At(es[i], o) \in Range(OffsetTable)

FactoryImages ==
    [version : {8}, entries : {Raw(es) : es \in Entries}]
      \cup [version : {7}, entries : {Fixed(es) : es \in {x \in Entries : InTable(x)}}]
AllTypes == {"smsn", "apid", "serial", "cert", "ed25519", "p256r1", "flags", "empty", "other"}
PrivateKeys == {"ed25519", "p256r1"}
Diagnostic == {"serial", "apid"}

(* Payload that reads as a private key, as flags, as other values.          *)
Word(type, padding, size) == [type |-> type, padding |-> padding, data_size |-> size]
Words ==
    [type \in AllTypes |-> [i \in 1 .. 3 |->
        CASE type = "apid" -> IF i = 3 THEN Word("ed25519", 0, 2) ELSE Word("flags", 0, i)
          [] type = "smsn" -> Word("p256r1", 0, 3 - i)
          [] OTHER -> Word("other", i - 1, 1)]]

AllFaults == {"malloc", "psa_import_key", "erase", "write"}
=============================================================================
