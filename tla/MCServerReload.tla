---------------------------- MODULE MCServerReload ----------------------------
(***************************************************************************)
(* Small instances of ServerReload.                                        *)
(***************************************************************************)
EXTENDS ServerReload

CONSTANTS c1, c2, t1, t2

\* A toolset with an app resource, the same with a second tool that only some
\* clusters support, and a smaller one.
MCSurfaces ==
    { [NoSurface EXCEPT !["tool"] = {t1}, !["resource"] = {t1}],
      [NoSurface EXCEPT !["tool"] = {t1, t2}, !["prompt"] = {t2}] }

TwoContexts == { [contexts |-> {c1, c2}, current |-> c1] }
Edited      == { [contexts |-> {c1, c2}, current |-> c1],
                 [contexts |-> {c1}, current |-> NoName],
                 [contexts |-> {c1, c2}, current |-> NoName] }
=============================================================================
