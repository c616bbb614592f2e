-------------------------- MODULE AssetRefinement --------------------------
(* The asset manager implements AssetLifecycle.                            *)
EXTENDS AssetManager

\* A handle is loading from the moment its load is queued until the last of its
\* copies has left p_PendingLoadCallbacks.
LoadingHandles == {h \in Handle : IsQueued(h) \/ futures[h] # None \/ uploads[h] # None}

UnsupportedHandles == {HandleOf[i] : i \in {j \in Info : ~HasLoader(j)}}

BroughtBy ==
  [h \in Handle |->
     {HandleOf[t] : t \in UNION {{Textures[i][k] : k \in DOMAIN Textures[i]} :
                                   i \in {j \in Info : HandleOf[j] = h}}}]

Lifecycle == INSTANCE AssetLifecycle WITH
  Unsupported <- UnsupportedHandles,
  Brings <- BroughtBy,
  loading <- LoadingHandles,
  unloading <- Keys(unloads),
  loaded <- Keys(loaded)

\* Every step of the manager, of its loader threads and of its clients is one of
\* the lifecycle or invisible to it: a handle leaves the loading ones only by
\* being loaded (or for want of a loader), and the loaded ones only by an unload.
ImplementsLifecycle == Lifecycle!AssetsSpec
=============================================================================
