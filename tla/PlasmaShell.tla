---------------------------- MODULE PlasmaShell ----------------------------
(***************************************************************************)
(* The objects PlasmaShell::createSurface() gives for surfaces: there is   *)
(* one for each Surface, which is found again with get(). The Surface it   *)
(* was made for is kept as a QPointer, null when the Surface is deleted.   *)
(* A surface may also be a wl_surface that no Surface of the library       *)
(* wraps, and an address is used again once its object is deleted.         *)
(***************************************************************************)
EXTENDS Naturals, Sequences

CONSTANTS
    Addresses,   \* Where a Surface may lie.
    MaxSurfaces, \* Bound: how many Surfaces are made.
    MaxShellSurfaces \* Bound: how many objects are made.

None == 0  \* No object.

VARIABLES
    surfaces,      \* The Surfaces made so far: their address, whether they exist.
    shell,         \* Whether the PlasmaShell is set up: "unset", "valid", "ended".
    shellSurfaces, \* The PlasmaShellSurfaces so far.
    given,         \* What createSurface() last returned: for which surface, which object.
    created        \* Whether it made that object.

vars == <<surfaces, shell, shellSurfaces, given, created>>

ShellSurfaces ==
    [madeFor : 0 .. MaxSurfaces,        \* The Surface it was made for.
     parentSurface : 0 .. MaxSurfaces,  \* What the QPointer points to.
     exists : BOOLEAN, valid : BOOLEAN]

TypeOK ==
    /\ surfaces \in Seq([address : Addresses, exists : BOOLEAN])
    /\ shell \in {"unset", "valid", "ended"}
    /\ shellSurfaces \in Seq(ShellSurfaces)
    /\ given \in [surface : 0 .. MaxSurfaces, object : 0 .. MaxShellSurfaces]
    /\ created \in BOOLEAN

Init ==
    /\ surfaces = <<>>
    /\ shell = "unset"
    /\ shellSurfaces = <<>>
    /\ given = [surface |-> None, object |-> None]
    /\ created = FALSE

-----------------------------------------------------------------------------
CreateSurface ==
    /\ Len(surfaces) < MaxSurfaces
    /\ \E a \in Addresses :
           /\ \A s \in DOMAIN surfaces : surfaces[s].exists => surfaces[s].address # a
           /\ surfaces' = Append(surfaces, [address |-> a, exists |-> TRUE])
    /\ UNCHANGED <<shell, shellSurfaces, given, created>>

\* What a deleted Surface leaves in the objects: their QPointer is null.
CleanedOf(s) ==
    [o \in DOMAIN shellSurfaces |->
        IF shellSurfaces[o].parentSurface = s
        THEN [shellSurfaces[o] EXCEPT !.parentSurface = None] ELSE shellSurfaces[o]]

DeleteSurface ==
    /\ \E s \in DOMAIN surfaces :
           /\ surfaces[s].exists
           /\ surfaces' = [surfaces EXCEPT ![s].exists = FALSE]
           /\ shellSurfaces' = CleanedOf(s)
    /\ UNCHANGED <<shell, given, created>>

Setup ==
    /\ shell # "valid"
    /\ shell' = "valid"
    /\ UNCHANGED <<surfaces, shellSurfaces, given, created>>

\* release() or destroy() of the shell, which its surfaces follow.
EndShell ==
    /\ shell = "valid"
    /\ shell' = "ended"
    /\ shellSurfaces' = [o \in DOMAIN shellSurfaces |->
                            [shellSurfaces[o] EXCEPT !.valid = FALSE]]
    /\ UNCHANGED <<surfaces, given, created>>

\* A pointer to a Surface compares equal to the address of another that lies there.
SameAddress(s, t) == s # None /\ t # None /\ surfaces[s].address = surfaces[t].address

\* PlasmaShellSurface::Private::get(), for a Surface.
Found(s) ==
    LET objects == {o \in DOMAIN shellSurfaces :
                        /\ shellSurfaces[o].exists
                        /\ SameAddress(shellSurfaces[o].parentSurface, s)}
    IN  IF s = None \/ objects = {} THEN None
        ELSE CHOOSE o \in objects : \A p \in objects : o <= p

\* createSurface() for a Surface, or for None: a wl_surface without one.
createSurface ==
    /\ shell = "valid"
    /\ \E s \in {None} \cup {t \in DOMAIN surfaces : surfaces[t].exists} :
           IF Found(s) # None
           THEN /\ given' = [surface |-> s, object |-> Found(s)]
                /\ created' = FALSE
                /\ UNCHANGED shellSurfaces
           ELSE /\ Len(shellSurfaces) < MaxShellSurfaces
                /\ shellSurfaces' =
                       Append(shellSurfaces,
                              [madeFor |-> s, parentSurface |-> s, exists |-> TRUE,
                               valid |-> TRUE])
                /\ given' = [surface |-> s, object |-> Len(shellSurfaces) + 1]
                /\ created' = TRUE
    /\ UNCHANGED <<surfaces, shell>>

\* The user releases or deletes an object.
ReleaseShellSurface ==
    /\ \E o \in DOMAIN shellSurfaces :
           /\ shellSurfaces[o].valid
           /\ shellSurfaces' = [shellSurfaces EXCEPT ![o].valid = FALSE]
    /\ UNCHANGED <<surfaces, shell, given, created>>

DeleteShellSurface ==
    /\ \E o \in DOMAIN shellSurfaces :
           /\ shellSurfaces[o].exists
           /\ shellSurfaces' = [shellSurfaces EXCEPT ![o].exists = FALSE, ![o].valid = FALSE]
           /\ given' = IF given.object = o THEN [surface |-> None, object |-> None] ELSE given
    /\ UNCHANGED <<surfaces, shell, created>>

Next ==
    \/ CreateSurface
    \/ DeleteSurface
    \/ Setup
    \/ EndShell
    \/ createSurface
    \/ ReleaseShellSurface
    \/ DeleteShellSurface

Spec == Init /\ [][Next]_vars

-----------------------------------------------------------------------------
\* A surface is given the object that was made for it, never that of an earlier
\* Surface in its place; and one Surface has one object (PlasmaShell::createSurface). A
\* wl_surface that no Surface wraps is excluded (madeFor = None): createSurface() makes
\* it another object on each call, though plasmashell.h promises the existing one.
OneForEachSurface ==
    /\ given.object # None => shellSurfaces[given.object].madeFor = given.surface
    /\ \A o, p \in DOMAIN shellSurfaces :
           /\ shellSurfaces[o].exists /\ shellSurfaces[p].exists
           /\ shellSurfaces[o].madeFor = shellSurfaces[p].madeFor
           /\ shellSurfaces[o].madeFor # None
           => o = p

=============================================================================
