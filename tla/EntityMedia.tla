----------------------------- MODULE EntityMedia -----------------------------
(***************************************************************************)
(* The portraits of the entities of the world: an upload in parts, the     *)
(* server that verifies it and keeps it under a key made of the entity and *)
(* of what the bytes are, the row it is registered with, and the           *)
(* publication of a draft, which copies a portrait everybody may see to    *)
(* the public bucket before one transaction binds it.                      *)
(*                                                                         *)
(* An upload may be left by its browser and started again, a publication   *)
(* asked again while the first is still running, and the feature may be    *)
(* switched off between two requests.  A draft is the one saved in the     *)
(* lease; how it gets there is WorldEditSession.                           *)
(***************************************************************************)
EXTENDS Integers, FiniteSets

CONSTANTS
  Entity, File,
  Image,     \* the files that are a PNG or a WebP image
  Part,      \* the parts an image is sent in: 1..Part
  Upload,    \* identities of uploads
  Publisher, \* publications that may be running at once
  MaxToken,  \* leases given
  MaxOp,     \* uploads, edits, leases, publications, switches and failures
  Nil

VARIABLES
  enabled,   \* TDA_WORLD_ENTITY_MEDIA_ENABLED
  token,     \* the last lease given
  draft,     \* its draft, or Nil once published or expired
  upload,    \* upload[u]: an upload by its browser and by the server, or Nil
  parts,     \* parts[u]: the parts received
  staged,    \* the objects in the staging bucket
  public,    \* the objects in the public bucket
  asset,     \* asset[e, f]: the status of its row in media_assets, or Nil
  binding,   \* binding[e]: its row in entity_media_bindings, or Nil
  visible,   \* the entities published for everybody
  pub,       \* pub[p]: a publication as the server runs it, or Nil
  ops,
  wanted     \* wanted[e]: the portrait the drafts published wanted for it

vars == <<enabled, token, draft, upload, parts, staged, public, asset, binding, visible,
          pub, ops, wanted>>
stores == <<staged, public, asset>>
graph == <<binding, visible, wanted>>

Unset == "unset"     \* primaryMediaAssetId is undefined: nothing is asked
Key == Entity \X File
Node == [asset : File \cup {Nil, Unset}, open : BOOLEAN]
Draft == [Entity -> Node]

TypeOK ==
  /\ enabled \in BOOLEAN /\ token \in 1..MaxToken
  /\ draft \in Draft \cup {Nil}
  /\ upload \in [Upload -> [entity : Entity, file : File, token : 1..MaxToken,
                            phase : {"sending", "asked", "read", "put", "stored", "kept"}]
                           \cup {Nil}]
  /\ parts \in [Upload -> SUBSET (1..Part)]
  /\ staged \subseteq Key /\ public \subseteq Key
  /\ asset \in [Key -> {"staged", "verified_public", Nil}]
  /\ binding \in [Entity -> File \cup {Nil}] /\ visible \subseteq Entity
  /\ pub \in [Publisher -> [token : 1..MaxToken, seen : Draft, media : BOOLEAN,
                            known : [Entity -> BOOLEAN], todo : SUBSET Entity,
                            at : Entity \cup {Nil},
                            phase : {"next", "put", "delivered"}] \cup {Nil}]
  /\ ops \in 0..MaxOp
  /\ wanted \in [Entity -> File \cup {Nil}]

(* hydrateWorldGraphDraftMedia: a draft starts with the portrait bound. *)
hydrateWorldGraphDraftMedia ==
  [e \in Entity |-> [asset |-> IF enabled /\ binding[e] # Nil THEN binding[e] ELSE Unset,
                     open |-> e \in visible]]

Init ==
  /\ enabled = TRUE /\ token = 1
  /\ binding = [e \in Entity |-> Nil] /\ visible = {} /\ draft = hydrateWorldGraphDraftMedia
  /\ upload = [u \in Upload |-> Nil] /\ parts = [u \in Upload |-> {}]
  /\ staged = {} /\ public = {} /\ asset = [k \in Key |-> Nil]
  /\ pub = [p \in Publisher |-> Nil]
  /\ ops = 0 /\ wanted = [e \in Entity |-> Nil]

(* authorizeWorldEntityMediaTarget: the lease is live and its draft has    *)
(* the entity.                                                             *)
authorizeWorldEntityMediaTarget(t, e) ==
  IF draft = Nil THEN FALSE ELSE t = token /\ e \in DOMAIN draft

-----------------------------------------------------------------------------
(* The upload.  Its browser sends the parts in order, each with the lease. *)
Phase(u, p) == IF upload[u] = Nil THEN FALSE ELSE upload[u].phase = p
To(u, p) == upload' = [upload EXCEPT ![u].phase = p]

requestWorldEntityPortraitUploadAction(u, e, f) ==
  /\ enabled /\ upload[u] = Nil /\ parts[u] = {}
  /\ authorizeWorldEntityMediaTarget(token, e)
  /\ upload' = [upload EXCEPT ![u] =
                  [entity |-> e, file |-> f, token |-> token, phase |-> "sending"]]
  /\ UNCHANGED <<enabled, token, draft, parts, stores, graph, pub>>

SendPart(u) ==
  /\ enabled /\ Phase(u, "sending") /\ parts[u] # 1..Part
  /\ authorizeWorldEntityMediaTarget(upload[u].token, upload[u].entity)
  /\ parts' = [parts EXCEPT ![u] = @ \cup {Cardinality(@) + 1}]
  /\ UNCHANGED <<enabled, token, draft, upload, stores, graph, pub>>

finalizeWorldEntityPortraitUploadAction(u) ==
  /\ enabled /\ Phase(u, "sending") /\ parts[u] = 1..Part
  /\ authorizeWorldEntityMediaTarget(upload[u].token, upload[u].entity)
  /\ To(u, "asked")
  /\ UNCHANGED <<enabled, token, draft, parts, stores, graph, pub>>

(* finalizeWorldEntityPortraitPendingUpload: every part is read, and the   *)
(* bytes must be what the intent said.                                     *)
inspectWorldEntityImage(f) == f \in Image
ReadParts(u) ==
  /\ Phase(u, "asked") /\ parts[u] = 1..Part
  /\ inspectWorldEntityImage(upload[u].file)
  /\ To(u, "read")
  /\ UNCHANGED <<enabled, token, draft, parts, stores, graph, pub>>

(* putImmutableObject: a look, a conditional put, and what is there is     *)
(* read back; another finalizer may put the same key in between.           *)
KeyOf(u) == <<upload[u].entity, upload[u].file>>
putImmutableObject(u) ==
  \/ /\ Phase(u, "read") /\ KeyOf(u) \notin staged
     /\ To(u, "put") /\ UNCHANGED staged
  \/ /\ Phase(u, "put") /\ staged' = staged \cup {KeyOf(u)}
     /\ To(u, "stored")
  \/ /\ Phase(u, "read") /\ KeyOf(u) \in staged
     /\ To(u, "stored") /\ UNCHANGED staged
Put(u) ==
  /\ putImmutableObject(u)
  /\ UNCHANGED <<enabled, token, draft, parts, public, asset, graph, pub>>

(* The parts are deleted, and the row is the one there is or a new one: of *)
(* two inserts of one key the loser takes the winner's.                    *)
persistVerifiedAsset(k) == IF asset[k] = Nil THEN "staged" ELSE asset[k]
Persist(u) ==
  /\ Phase(u, "stored") /\ KeyOf(u) \in staged
  /\ parts' = [parts EXCEPT ![u] = {}]
  /\ asset' = [asset EXCEPT ![KeyOf(u)] = persistVerifiedAsset(KeyOf(u))]
  /\ To(u, "kept")
  /\ UNCHANGED <<enabled, token, draft, staged, public, graph, pub>>

(* The answer: the portrait of the draft, saved with the draft. *)
Uploaded(u) ==
  /\ Phase(u, "kept")
  /\ upload' = [upload EXCEPT ![u] = Nil]
  /\ draft' = IF authorizeWorldEntityMediaTarget(upload[u].token, upload[u].entity)
                THEN [draft EXCEPT ![upload[u].entity].asset = upload[u].file] ELSE draft
  /\ UNCHANGED <<enabled, token, parts, stores, graph, pub>>

(* A request that fails, a browser that is closed, a server that stops.    *)
(* The parts of an upload given up are left to the rules of the bucket.    *)
UploadFails(u) ==
  /\ upload[u] # Nil
  /\ upload' = [upload EXCEPT ![u] = Nil]
  /\ parts' = [parts EXCEPT ![u] = {}]
  /\ UNCHANGED <<enabled, token, draft, stores, graph, pub>>

-----------------------------------------------------------------------------
(* The editor removes a portrait or changes who may see the entity, and    *)
(* leases end and are given.                                               *)
Edit(e) ==
  /\ draft # Nil
  /\ \/ draft[e].asset # Nil /\ draft' = [draft EXCEPT ![e].asset = Nil]
     \/ draft' = [draft EXCEPT ![e].open = ~@]
  /\ UNCHANGED <<enabled, token, upload, parts, stores, graph, pub>>

Lease ==
  /\ token < MaxToken /\ token' = token + 1
  /\ draft' = hydrateWorldGraphDraftMedia
  /\ UNCHANGED <<enabled, upload, parts, stores, graph, pub>>

Switch ==
  /\ enabled' = ~enabled
  /\ UNCHANGED <<token, draft, upload, parts, stores, graph, pub>>

-----------------------------------------------------------------------------
(* The publication: the saved draft is read, then the rows of what it      *)
(* wants.                                                                  *)
worldEntityMediaDraftHasIntent(d) == \E e \in Entity : d[e].asset # Unset
Wants(d, e) == d[e].asset \in File
safeAssetForEntity(e, f) == asset[<<e, f>>] # Nil
worldEntityMediaCanBecomePublic(n) == n.open

(* prepareWorldEntityMediaForPublish; switched off, a draft that wants     *)
(* something is refused.                                                   *)
prepareWorldEntityMediaForPublish(p) ==
  /\ pub[p] = Nil /\ draft # Nil
  /\ enabled \/ ~worldEntityMediaDraftHasIntent(draft)
  /\ enabled => \A e \in Entity : Wants(draft, e) => safeAssetForEntity(e, draft[e].asset)
  /\ pub' = [pub EXCEPT ![p] =
       [token |-> token, seen |-> draft, media |-> enabled, phase |-> "next",
        at |-> Nil,
        known |-> [e \in Entity |->
                     Wants(draft, e) /\ asset[<<e, draft[e].asset>>] = "verified_public"],
        todo |-> {e \in Entity : /\ enabled /\ Wants(draft, e)
                                 /\ worldEntityMediaCanBecomePublic(draft[e])}]]
  /\ UNCHANGED <<enabled, token, draft, upload, parts, stores, graph>>

At(p, s) == IF pub[p] = Nil THEN FALSE ELSE pub[p].phase = s
Seen(p, e) == <<e, pub[p].seen[e].asset>>

(* promoteWorldEntityPortrait, of one entity after another: the bytes are  *)
(* read, put in the public bucket and fetched as everybody would; then the *)
(* row says so, and only then is the next entity looked at.                *)
Known(p, e) ==
  /\ At(p, "next") /\ e \in pub[p].todo /\ pub[p].known[e]
  /\ pub' = [pub EXCEPT ![p].todo = @ \ {e}] /\ UNCHANGED <<public, asset>>
Promote(p, e) ==
  /\ At(p, "next") /\ e \in pub[p].todo /\ ~pub[p].known[e] /\ Seen(p, e) \in staged
  /\ public' = public \cup {Seen(p, e)}
  /\ pub' = [pub EXCEPT ![p].phase = "put", ![p].at = e] /\ UNCHANGED asset
Delivered(p) ==
  /\ At(p, "put") /\ Seen(p, pub[p].at) \in public
  /\ pub' = [pub EXCEPT ![p].phase = "delivered"] /\ UNCHANGED <<public, asset>>
Verify(p) ==
  /\ At(p, "delivered")
  /\ asset' = [asset EXCEPT ![Seen(p, pub[p].at)] = "verified_public"]
  /\ pub' = [pub EXCEPT ![p].phase = "next", ![p].at = Nil, ![p].todo = @ \ {pub[p].at}]
  /\ UNCHANGED public
promoteWorldEntityPortrait(p) ==
  /\ (\E e \in Entity : Known(p, e) \/ Promote(p, e)) \/ Delivered(p) \/ Verify(p)
  /\ UNCHANGED <<enabled, token, draft, upload, parts, staged, graph>>

(* publish_world_edit_state_with_media_atomic: the bindings must say what  *)
(* the draft says now, and for everybody only what was verified; the graph *)
(* and the bindings are then written in one transaction that takes the     *)
(* lease.  Without the feature only the graph is.                          *)
BindingsChecked(s) ==
  \A e \in Entity :
    /\ (s[e].asset = Unset) = (draft[e].asset = Unset) /\ s[e].asset = draft[e].asset
    /\ Wants(draft, e) => /\ safeAssetForEntity(e, draft[e].asset)
                          /\ draft[e].open => asset[<<e, draft[e].asset>>] = "verified_public"
BindingsUnchecked(s) == \A e \in Entity : Wants(s, e) => safeAssetForEntity(e, s[e].asset)
MediaValid(s) == BindingsChecked(s)
Bound(s, b) == [e \in Entity |-> IF s[e].asset = Unset THEN b[e] ELSE s[e].asset]

publish_world_edit_state_with_media_atomic(p) ==
  /\ At(p, "next") /\ pub[p].todo = {}
  /\ draft # Nil /\ pub[p].token = token
  /\ pub[p].media => MediaValid(pub[p].seen)
  /\ binding' = IF pub[p].media THEN Bound(pub[p].seen, binding) ELSE binding
  /\ visible' = {e \in Entity : draft[e].open}
  /\ wanted' = Bound(IF pub[p].media THEN draft ELSE pub[p].seen, wanted)
  /\ draft' = Nil
  /\ pub' = [pub EXCEPT ![p] = Nil]
  /\ UNCHANGED <<enabled, token, upload, parts, stores>>

(* Refused, failed at any step, or stopped: what was done stays. *)
failPublish(p) ==
  /\ pub[p] # Nil
  /\ pub' = [pub EXCEPT ![p] = Nil]
  /\ UNCHANGED <<enabled, token, draft, upload, parts, stores, graph>>

Refused(p) ==
  /\ At(p, "next") /\ pub[p].todo = {}
  /\ draft # Nil /\ pub[p].token = token
       => pub[p].media /\ ~MediaValid(pub[p].seen)
  /\ pub' = [pub EXCEPT ![p] = Nil]
  /\ UNCHANGED <<enabled, token, draft, upload, parts, stores, graph>>

(* What starts something, or breaks it: the bound counts these. *)
Start ==
  /\ ops < MaxOp /\ ops' = ops + 1
  /\ \/ \E u \in Upload :
          \/ \E e \in Entity, f \in File : requestWorldEntityPortraitUploadAction(u, e, f)
          \/ UploadFails(u)
     \/ \E e \in Entity : Edit(e)
     \/ Lease \/ Switch
     \/ \E p \in Publisher : prepareWorldEntityMediaForPublish(p) \/ failPublish(p)

Step ==
  /\ ops' = ops
  /\ \/ \E u \in Upload :
          \/ SendPart(u) \/ finalizeWorldEntityPortraitUploadAction(u) \/ ReadParts(u)
          \/ Put(u) \/ Persist(u) \/ Uploaded(u)
     \/ \E p \in Publisher :
          \/ promoteWorldEntityPortrait(p) \/ publish_world_edit_state_with_media_atomic(p)
          \/ Refused(p)

Next == Start \/ Step

Spec == Init /\ [][Next]_vars

-----------------------------------------------------------------------------
(* GET /api/world/entity-media/[assetId]: the bytes of a portrait, for the *)
(* editors, when the row and the object agree.                             *)
Preview(e, f) == asset[<<e, f>>] # Nil /\ <<e, f>> \in staged

(* Where the readers' browsers take it from. *)
worldEntityPublicMediaUrl(e, f) == asset[<<e, f>>] = "verified_public"
Presented(e) == binding[e] \in File /\ worldEntityPublicMediaUrl(e, binding[e])

(* A draft never names a portrait its editors cannot see, and a portrait   *)
(* readers are sent to is there, whatever uploads and publications were    *)
(* left half done.                                                         *)
PortraitsAreThere ==
  /\ draft # Nil => \A e \in Entity : Wants(draft, e) => Preview(e, draft[e].asset)
  /\ \A e \in Entity : Presented(e) => <<e, binding[e]>> \in public

(* What is bound is what the draft that was published wanted: not what it  *)
(* wanted when the portraits began to be copied, and never nothing because *)
(* the feature was switched off.  (Switched off, a publication looks at    *)
(* what is wanted when it begins only.)                                    *)
BoundAsDrafted == \A e \in Entity : binding[e] = wanted[e]

(* No byte is put where everybody can fetch it before it was verified and  *)
(* registered.                                                             *)
PublicIsVerified == \A k \in public : asset[k] # Nil /\ k \in staged
=============================================================================
