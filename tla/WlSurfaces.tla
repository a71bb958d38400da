----------------------------- MODULE WlSurfaces -----------------------------
(* The wl_surface objects, of all clients. *)

CONSTANTS
  Surfaces,
  NoSurface   \* None

ASSUME NoSurfaceAssumption == NoSurface \notin Surfaces
=============================================================================
