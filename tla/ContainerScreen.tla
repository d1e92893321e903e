---------------------------- MODULE ContainerScreen ----------------------------
(***************************************************************************)
(* ContainerViewController of MJSwiftCore, the root view controller of the *)
(* app: AppDelegate makes it with the splash and replaces that by the list *)
(* two seconds later.  It contains one view controller and set() replaces  *)
(* it, at once or with an animation whose completion closure tidies up     *)
(* later.  Everything runs on the main thread, but other calls of set come *)
(* between an animation and its completion.  The three animations differ   *)
(* in which of the two views they fade.                                    *)
(*                                                                         *)
(* Its specification is ContainerSpec, not Spec, so that one module can be *)
(* about this class and about Future.                                      *)
(***************************************************************************)
EXTENDS FiniteSets

CONSTANTS Controllers,  \* the view controllers that are ever contained
          Splash,       \* the one it is initialised with
          Reuse,        \* whether a controller that was replaced is set again
          Embedding     \* when it gets a parent controller: never, once its
                        \* view is loaded, or at any time

ASSUME SplashAssumption == Splash \in Controllers
ASSUME ReuseAssumption == Reuse \in BOOLEAN
ASSUME EmbeddingAssumption == Embedding \in {"never", "loaded", "any"}

VARIABLES
  viewController,  \* ContainerViewController.viewController
  loaded,          \* isViewLoaded
  parent,          \* where the container is in getting or losing a parent
  children,        \* childViewControllers
  subviews,        \* the controllers whose view is a subview of the container's
  faded,           \* the controllers whose view has alpha 0
  animations,      \* the animations whose completion is to come: <<old, new>>
  used             \* the controllers that were contained so far

containerVars == <<viewController, loaded, parent, children, subviews, faded, animations, used>>

(* An animation never replaces a controller by itself.                      *)
ContainerTypeOK ==
  /\ viewController \in Controllers
  /\ loaded \in BOOLEAN
  /\ parent \in {"none", "entering", "in", "leaving"}
  /\ children \in SUBSET Controllers
  /\ subviews \in SUBSET Controllers
  /\ faded \in SUBSET Controllers
  /\ animations \subseteq {p \in Controllers \X Controllers : p[1] # p[2]}
  /\ used \in SUBSET Controllers

ContainerInit ==
  /\ viewController = Splash /\ used = {Splash}
  /\ loaded = FALSE /\ parent = "none"
  /\ children = {} /\ subviews = {} /\ faded = {} /\ animations = {}

-------------------------------------------------------------------------------
(* viewDidLoad.                                                             *)
ViewDidLoad ==
  /\ ~loaded /\ loaded' = TRUE
  /\ IF viewController \notin children
       THEN /\ children' = children \cup {viewController}
            /\ subviews' = subviews \cup {viewController}
       ELSE UNCHANGED <<children, subviews>>
  /\ UNCHANGED <<viewController, parent, faded, animations, used>>

Candidates == Controllers \ (IF Reuse THEN {viewController} ELSE used)

(* The controller the completion closure removes: the one contained when    *)
(* set was called.                                                          *)
ReadLate(old, new) == new
Captured(old, new) == old

(* set before the view is loaded only stores the controller.                *)
SetUnloaded(v) ==
  /\ ~loaded /\ v \in Candidates
  /\ viewController' = v /\ used' = used \cup {v}
  /\ UNCHANGED <<loaded, parent, children, subviews, faded, animations>>

(* set with no animation.                                                   *)
SetAtOnce(v) ==
  /\ loaded /\ v \in Candidates
  /\ viewController' = v /\ used' = used \cup {v}
  /\ children' = (children \cup {v}) \ {Captured(viewController, v)}
  /\ subviews' = (subviews \ {Captured(viewController, v)}) \cup {v}
  /\ UNCHANGED <<loaded, parent, faded, animations>>

(* set with an animation: crossDisolve and oldModalBottom fade the old view *)
(* out, newModalBottom fades the new one in.                                *)
SetAnimated(v) ==
  /\ loaded /\ v \in Candidates
  /\ viewController' = v /\ used' = used \cup {v}
  /\ children' = children \cup {v}
  /\ subviews' = subviews \cup {v}
  /\ animations' = animations \cup {<<Captured(viewController, v), v>>}
  /\ faded' \in {faded \cup {viewController}, faded \ {v}}
  /\ UNCHANGED <<loaded, parent>>

(* The completion of an animation.                                          *)
CompleteWithoutView(p) ==
  /\ children' = children \ {p[1]}
  /\ UNCHANGED subviews
CompleteAnimation(p) ==
  /\ children' = children \ {p[1]}
  /\ subviews' = subviews \ {p[1]}

AnimationEnds ==
  /\ \E p \in animations : animations' = animations \ {p} /\ CompleteAnimation(p)
  /\ UNCHANGED <<viewController, loaded, parent, faded, used>>

-------------------------------------------------------------------------------
(* willMove and didMove(toParentViewController:).                           *)
WillMoveToParent ==
  /\ parent = "none" /\ parent' = "entering"
  /\ \/ Embedding = "loaded" /\ loaded
     \/ Embedding = "any"
  /\ children' = children \cup {viewController}
  /\ UNCHANGED <<viewController, loaded, subviews, faded, animations, used>>

DidMoveToParent ==
  /\ parent = "entering" /\ parent' = "in"
  /\ UNCHANGED <<viewController, loaded, children, subviews, faded, animations, used>>

WillMoveToNoParent ==
  /\ parent = "in" /\ parent' = "leaving"
  /\ UNCHANGED <<viewController, loaded, children, subviews, faded, animations, used>>

DidMoveToNoParent ==
  /\ parent = "leaving" /\ parent' = "none"
  /\ children' = children \ {viewController}
  /\ UNCHANGED <<viewController, loaded, subviews, faded, animations, used>>

-------------------------------------------------------------------------------
ContainerNext ==
  \/ ViewDidLoad \/ AnimationEnds
  \/ \E v \in Controllers : SetUnloaded(v) \/ SetAtOnce(v) \/ SetAnimated(v)
  \/ WillMoveToParent \/ DidMoveToParent \/ WillMoveToNoParent \/ DidMoveToNoParent

ContainerSpec == ContainerInit /\ [][ContainerNext]_containerVars

-------------------------------------------------------------------------------
(* A completion that comes late, after other calls of set, never takes the  *)
(* view of the controller that is contained by then: it removes the one its *)
(* own call replaced (lines 89-93, 105-109, 120-124).                       *)
CurrentStays == loaded => viewController \in subviews

(* Once the view is loaded and every animation is over, the view on screen  *)
(* is that of the contained controller, alone and not faded out, and no     *)
(* other controller is left a child (lines 19-20, 37).                      *)
ShowsCurrent ==
  loaded /\ animations = {} =>
    /\ subviews = {viewController}
    /\ children \subseteq {viewController}
    /\ viewController \notin faded

(* The two together: nobody takes the contained controller off the screen.  *)
ContainedStaysShown == CurrentStays /\ ShowsCurrent
===============================================================================
