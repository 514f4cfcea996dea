------------------------ MODULE DescriptorRegistry ------------------------
(***************************************************************************)
(* What the descriptor cache promises the services that use it: for every  *)
(* key the descriptors it hands out contain the key's service, and once it *)
(* has some for a key it always has.                                       *)
(***************************************************************************)
CONSTANTS Keys, Files, Provides, EmbeddedFile, Unsolicited, NoFile

VARIABLE available   \* the file handed out for each key, NoFile if none

Init == available = [k \in Keys |-> NoFile]

\* What may become of one key's descriptors.  Unless descriptor services
\* volunteer answers, the first file handed out for a key is final, and it is
\* the embedded one for a key that has embedded descriptors.
Changes(k) ==
    /\ <<k, available'[k]>> \in Provides
    /\ \/ Unsolicited
       \/ /\ available[k] = NoFile
          /\ k \in DOMAIN EmbeddedFile => available'[k] = EmbeddedFile[k]

Next ==
    /\ available' \in [Keys -> Files \cup {NoFile}]
    /\ \A k \in Keys : available'[k] = available[k] \/ Changes(k)

Spec == Init /\ [][Next]_available
=============================================================================
