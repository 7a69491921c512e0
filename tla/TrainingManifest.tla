-------------------------- MODULE TrainingManifest --------------------------
(***************************************************************************)
(* Training manifests of x/knowledge: what a pipeline trains on. A draft   *)
(* freezes the identifiers a selector finds in the corpus, less those of   *)
(* its parent; finalizing commits to them with a root; binding ties the    *)
(* manifest to the pipeline's attestation; every block supersedes.         *)
(*                                                                         *)
(* One operator owns each pipeline and all of its manifests. A selector is *)
(* what it finds: a subset of the facts in the corpus. Pairs, drift and    *)
(* normative entries are sets of identifiers like the facts and are left   *)
(* out; traces, whose identifiers carry the height, are not. The hash of a *)
(* root is injective, so a root is what was hashed.                        *)
(***************************************************************************)
EXTENDS Integers, Sequences

CONSTANTS Facts, Pipelines,
          MaxDepth,     \* levels of composition (8 in the code)
          MaxManifests, \* bound: manifests
          MaxHeight     \* bound: blocks

DepthAssumption == MaxDepth \in Nat \ {0}

VARIABLES corpus,   \* facts that a selector can find
          attested, \* pipelines with a TrainingAttestation
          manifest, \* manifests by number, in the order of their identifiers
          paused,   \* x/knowledge is paused
          height

vars == <<corpus, attested, manifest, paused, height>>

Ids == DOMAIN manifest
NoParent == 0
NoRoot == <<>>
Committed(m) == manifest[m].status \in {"FINALIZED", "ATTESTED"}

-----------------------------------------------------------------------------
(* Identifiers and roots *)

Traces(facts) == {<<f, height>> : f \in facts}
SubtractParent(ids, of, parent) == IF parent = NoParent THEN ids ELSE ids \ manifest[parent][of]
ComputeManifestMerkleRoot(x) == <<"v1", x.facts, x.traces>>
ComputeComposedManifestMerkleRoot(x) == <<"v1/COMPOSED", x.parentRoot, ComputeManifestMerkleRoot(x)>>
Root(x) ==
    IF x.parent # NoParent /\ x.parentRoot # NoRoot THEN ComputeComposedManifestMerkleRoot(x) ELSE ComputeManifestMerkleRoot(x)

(* AssembleManifestBundle resolves the manifest's own identifiers and those its parent lists. *)
Bundle(m) ==
    manifest[m].facts \cup IF manifest[m].parent = NoParent THEN {} ELSE manifest[manifest[m].parent].facts

-----------------------------------------------------------------------------
(* The life of a manifest *)

MayBeParent(m) == Committed(m) /\ manifest[m].depth + 1 < MaxDepth

CreateTrainingManifest(p, found, parent) ==
    /\ ~paused /\ Len(manifest) < MaxManifests
    /\ parent # NoParent => MayBeParent(parent)
    /\ manifest' = Append(manifest,
           [pipeline |-> p, status |-> "DRAFT", found |-> found, parent |-> parent,
            facts |-> SubtractParent(found, "facts", parent), traces |-> SubtractParent(Traces(found), "traces", parent),
            parentRoot |-> IF parent = NoParent THEN NoRoot ELSE manifest[parent].root,
            depth |-> IF parent = NoParent THEN 0 ELSE manifest[parent].depth + 1,
            root |-> NoRoot, finalizedAt |-> 0, attestedAt |-> 0])
    /\ UNCHANGED <<corpus, attested, paused, height>>

FinalizeTrainingManifest(m) ==
    /\ manifest[m].status = "DRAFT"
    /\ manifest' = [manifest EXCEPT ![m].status = "FINALIZED", ![m].root = Root(manifest[m]), ![m].finalizedAt = height]
    /\ UNCHANGED <<corpus, attested, paused, height>>

BindManifestToAttestation(m) ==
    /\ manifest[m].status = "FINALIZED" /\ manifest[m].pipeline \in attested
    /\ manifest' = [manifest EXCEPT ![m].status = "ATTESTED", ![m].attestedAt = height]
    /\ UNCHANGED <<corpus, attested, paused, height>>

(* The operator attests again at any time; the entry is overwritten. *)
AttestTraining(p) ==
    /\ attested' = attested \cup {p}
    /\ UNCHANGED <<corpus, manifest, paused, height>>

-----------------------------------------------------------------------------
(* Supersession *)

preferLater(m, n) ==
    \/ manifest[m].status = "ATTESTED" /\ manifest[n].status = "FINALIZED"
    \/ /\ manifest[m].status = manifest[n].status
       /\ \/ manifest[m].finalizedAt > manifest[n].finalizedAt
          \/ manifest[m].finalizedAt = manifest[n].finalizedAt /\ m > n

Group(p) == {m \in Ids : manifest[m].pipeline = p /\ Committed(m)}
Superseded(m) ==
    manifest[m].status = "FINALIZED" /\ \E n \in Group(manifest[m].pipeline) : preferLater(n, m)

(* ProcessRouteBLifecycle, as far as manifests go. *)
BeginBlocker ==
    /\ height < MaxHeight /\ height' = height + 1
    /\ manifest' = [m \in Ids |-> IF Superseded(m) THEN [manifest[m] EXCEPT !.status = "SUPERSEDED"] ELSE manifest[m]]
    /\ UNCHANGED <<corpus, attested, paused>>

-----------------------------------------------------------------------------
(* Around manifests: facts enter the corpus, fall and return; the module is paused and resumed. *)

FactMoves(f) ==
    /\ corpus' = IF f \in corpus THEN corpus \ {f} ELSE corpus \cup {f}
    /\ UNCHANGED <<attested, manifest, paused, height>>

SetPaused(b) ==
    /\ paused # b /\ paused' = b
    /\ UNCHANGED <<corpus, attested, manifest, height>>

Init ==
    /\ corpus = Facts /\ attested = {} /\ manifest = <<>> /\ paused = FALSE /\ height = 1

Next ==
    \/ \E p \in Pipelines, found \in {corpus} \cup {{f} : f \in corpus}, parent \in {NoParent} \cup Ids :
          CreateTrainingManifest(p, found, parent)
    \/ \E m \in Ids : FinalizeTrainingManifest(m) \/ BindManifestToAttestation(m)
    \/ \E p \in Pipelines \ attested : AttestTraining(p)
    \/ \E f \in Facts : FactMoves(f)
    \/ \E b \in BOOLEAN : SetPaused(b)
    \/ BeginBlocker

Spec == Init /\ [][Next]_vars

-----------------------------------------------------------------------------
(* Properties *)

TypeOK ==
    /\ corpus \subseteq Facts /\ attested \subseteq Pipelines /\ paused \in BOOLEAN
    /\ \A m \in Ids : /\ manifest[m].status \in {"DRAFT", "FINALIZED", "ATTESTED", "SUPERSEDED"}
                      /\ manifest[m].parent < m /\ manifest[m].depth < MaxDepth

(* A root commits to what the manifest lists and, through its parent's root, to everything above it: the parent *)
(* was committed when the child was drawn up and has not changed since, superseded or not.                      *)
RootsCommitToAncestors ==
    \A m \in Ids :
        /\ manifest[m].parent # NoParent => manifest[m].parentRoot = manifest[manifest[m].parent].root /\ manifest[m].parentRoot # NoRoot
        /\ manifest[m].status # "DRAFT" => manifest[m].root = Root(manifest[m])

(* A bundle holds all that the selector found when the manifest was drawn up, whatever was left to the parent. *)
BundleCoversSelection == \A m \in Ids : manifest[m].found \subseteq Bundle(m)

(* training_manifest.go: "the bundle unions the parent's fully-resolved content with the child's delta". *)
BundleResolvesParent == \A m \in Ids : manifest[m].parent # NoParent => Bundle(manifest[m].parent) \subseteq Bundle(m)

(* After each block one manifest of a pipeline is current: of those committed before this block, at most one is *)
(* only finalized, and none beside an attested one; and nothing is superseded without a successor that counts.  *)
OneCurrentManifest ==
    \A p \in Pipelines :
        LET mine == {m \in Ids : manifest[m].pipeline = p}
            waiting == {m \in mine : manifest[m].status = "FINALIZED" /\ manifest[m].finalizedAt < height}
        IN  /\ \A m, n \in waiting : m = n
            /\ waiting # {} => \A m \in mine : manifest[m].status = "ATTESTED" => manifest[m].attestedAt = height
            /\ (\E m \in mine : manifest[m].status = "SUPERSEDED") => Group(p) # {}

(* route_b_heartbeat.go: "the manifest with the greatest finalized_at_block is the canonical current". *)
SupersededByLater ==
    \A m \in Ids : manifest[m].status = "SUPERSEDED" =>
        \E n \in Group(manifest[m].pipeline) : manifest[n].finalizedAt >= manifest[m].finalizedAt

(* Once a pipeline has an attested manifest, a later one is attested in the block that finalizes it or never: *)
(* the next block supersedes it.                                                                              *)
LaterAttestationAtOnce ==
    \A m, n \in Ids :
        /\ manifest[m].pipeline = manifest[n].pipeline
        /\ manifest[m].status = "ATTESTED" /\ manifest[n].status = "ATTESTED"
        /\ manifest[m].attestedAt < manifest[n].attestedAt
        => manifest[n].finalizedAt = manifest[n].attestedAt

=============================================================================
