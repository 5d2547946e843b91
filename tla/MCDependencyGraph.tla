------------------------- MODULE MCDependencyGraph -------------------------
(***************************************************************************)
(* Two repositories: lib, which is depended on, and app, which depends on  *)
(* it and on an external service.  Versions differ in what the handlers    *)
(* tell apart: the state of project.yaml, a route, a package, a URL, the   *)
(* exclusion marker.                                                       *)
(***************************************************************************)
EXTENDS DependencyGraph, TLC

CONSTANTS lib, app, api, call, url, w1

Nothing == [n \in Needs |-> Undeclared]

Manifest(state, exposes, consumes) ==
    [state |-> state, exposes |-> exposes, consumes |-> consumes]

Absent    == Manifest("absent", {}, Nothing)
Malformed == Manifest("malformed", {}, Nothing)
Poison    == Manifest("poison", {}, Nothing)
Exposing  == Manifest("valid", {api}, Nothing)
Consuming == Manifest("valid", {}, [Nothing EXCEPT ![call] = lib, ![url] = Outside])
Relying   == Manifest("valid", {api}, [Nothing EXCEPT ![call] = app])

With(manifest, routes, packages) ==
    [excluded |-> FALSE, manifest |-> manifest, routes |-> routes,
     packages |-> packages, links |-> {}]

\* lib relies on app in turn, or has a broken manifest, with or without the marker,
\* one that raises, or none, with the marker; app starts and stops depending on lib, and a package of the
\* same name comes and goes.
MCContents ==
    (lib :> {With(Relying, {}, {}), With(Malformed, {}, {}), With(Poison, {}, {}),
             [With(Absent, {}, {}) EXCEPT !.excluded = TRUE],
             [With(Malformed, {}, {}) EXCEPT !.excluded = TRUE]})
    @@ (app :> {With(Consuming, {}, {}), With(Consuming, {}, {call}), With(Absent, {api}, {})})

PoisonContents ==
    (lib :> {With(Exposing, {}, {}), With(Poison, {}, {})})
    @@ (app :> {With(Consuming, {}, {}), With(Absent, {}, {})})

MCUrls == {url}
=============================================================================
