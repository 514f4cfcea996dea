------------------------ MODULE MCDescriptorManager ------------------------
(* Two fetched keys and one with embedded descriptors.  File f1 serves all  *)
(* keys; f2, the embedded one, does not serve k1, so that an answer can mix *)
(* usable and unusable descriptors.  Two tokens are enough: calls in flight *)
(* ask for disjoint sets of fetched keys (NoDuplicateFetch).                *)
EXTENDS DescriptorManager

CONSTANTS k1, k2, e1, f1, f2

MCKeys == {k1, k2, e1}
MCFiles == {f1, f2}
MCProvides == (MCKeys \X MCFiles) \ {<<k1, f2>>}
MCEmbeddedFile == [k \in {e1} |-> f2]
MCConfigs == {{k1, e1}, {k2}, {e1}}
=============================================================================
