--------------------------- MODULE AssetLifecycle ---------------------------
(***************************************************************************)
(* What the asset manager promises its clients, handle by handle: what is  *)
(* loading, what is waiting to be unloaded, and what GetAsset finds.  The  *)
(* threads, the budget of a tick, the uploads and the copies of an asset   *)
(* are gone.  AssetRefinement shows that AssetManager implements this.     *)
(***************************************************************************)
CONSTANTS
  Handle,       \* AssetHandles
  Unsupported,  \* handles of files of a type that has no loader
  Brings        \* the handles of the textures that the load of a handle adds

ASSUME LifecycleAssumption ==
  /\ Unsupported \subseteq Handle
  /\ Brings \in [Handle -> SUBSET Handle]

VARIABLES
  loading,    \* handles with a load anywhere between the queue and the last upload
  unloading,  \* handles with an unload pending
  loaded      \* keys of p_LoadedAssets

assets == <<loading, unloading, loaded>>

AssetsTypeOK ==
  /\ loading \subseteq Handle
  /\ unloading \subseteq Handle
  /\ loaded \subseteq Handle

AssetsInit ==
  /\ loading = {}
  /\ unloading = {}
  /\ loaded = {}

\* AnyAssetsLoading counts unloads as well.
Busy == loading # {} \/ unloading # {}

\* One load, or those of all the assets a scene needs.
Request(H) ==
  /\ loading' = loading \cup H
  /\ UNCHANGED <<unloading, loaded>>

\* Only what is loaded can be scheduled: one asset, or all of them at once.
Schedule(H) ==
  /\ H \subseteq loaded
  /\ unloading' = unloading \cup H
  /\ UNCHANGED <<loading, loaded>>

\* A load that was only queued for a type without loader vanishes.
Vanish(h) ==
  /\ h \in loading \cap Unsupported
  /\ loading' = loading \ {h}
  /\ UNCHANGED <<unloading, loaded>>

\* A parsed file adds its textures to what is loading.
Parse(h) ==
  /\ h \in loading
  /\ \E T \in SUBSET Brings[h] : loading' = loading \cup T
  /\ UNCHANGED <<unloading, loaded>>

\* Loads finish, several in one tick; a handle with another load under way stays
\* in loading.  Nothing is said of an asset that is already there: it stays.
Finish(H) ==
  /\ H \subseteq loading
  /\ loaded' = loaded \cup H
  /\ \E D \in SUBSET H : loading' = loading \ D
  /\ UNCHANGED unloading

\* Unloads are run, several in one tick, whether or not a load is under way.
Erase(H) ==
  /\ H \subseteq unloading
  /\ unloading' = unloading \ H
  /\ loaded' = loaded \ H
  /\ UNCHANGED loading

\* What the manager does by itself.
Manage ==
  \/ \E h \in Handle : Vanish(h) \/ Parse(h)
  \/ \E H \in SUBSET Handle : Finish(H) \/ Erase(H)

AssetsNext ==
  \/ \E H \in SUBSET Handle : Request(H) \/ Schedule(H)
  \/ Manage

AssetsSpec == AssetsInit /\ [][AssetsNext]_assets
=============================================================================
