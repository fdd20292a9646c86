----------------------------- MODULE Viewfinder -----------------------------
(***************************************************************************)
(* The viewfinder (src/camera/videoframeitem.cpp) with the gestures of its *)
(* page (qml/pages/ViewfinderPage.qml) and the scene graph that paints it. *)
(*                                                                         *)
(* Setters run on the GUI thread and ask for a repaint with update(); the  *)
(* render thread calls updatePaintNode later, while the GUI thread is      *)
(* blocked, and reads whatever the item holds by then.  What is on screen  *)
(* is thus a copy of the item's state that can be out of date, and has to  *)
(* be right again once no repaint is due.                                  *)
(*                                                                         *)
(* Lengths are pairs <<across, down>> in item pixels; roll is a multiple   *)
(* of 90 degrees, for which the factor of rollFitFactor is a fraction.     *)
(***************************************************************************)
EXTENDS Integers

CONSTANTS
    Frames,        \* sizes of frames
    DefaultFrame,  \* 640x480, taken before there is one
    Items,         \* sizes the item is given, <<0, 0>> before its layout
    Zooms,         \* zoom factors a pinch ends at
    MaxZoom,       \* MAX_ZOOM
    Drags,         \* distances of a drag
    Turns,         \* angles asked for at the roll indicator
    MaxFrames,     \* bound: frames
    MaxGestures,   \* bound: changes by the user or the layout
    MaxRefusals    \* bound: textures that cannot be created

ASSUME ViewfinderAssumption ==
    /\ DefaultFrame \in Frames
    /\ Frames \subseteq (Nat \ {0}) \X (Nat \ {0})
    /\ <<0, 0>> \in Items /\ Items \subseteq Nat \X Nat
    /\ MaxZoom \in Nat /\ MaxZoom >= 2 /\ Zooms \subseteq Int
    /\ Drags \subseteq Int \X Int
    /\ Turns \subseteq {-90, 0, 90, 180, 270}
    /\ MaxFrames \in Nat /\ MaxGestures \in Nat /\ MaxRefusals \in Nat

VARIABLES
    camera,     \* m_camera: "unset" | "set" | "gone"
    image,      \* currentImage() of the camera: its number and size
    pending,    \* m_pendingImage
    hasFrame,   \* m_hasFrame
    dirty,      \* m_textureDirty
    item,       \* width() and height()
    fillMode, mirrored, zoom, roll, pan,
    due,        \* a repaint was asked for and has not come yet
    node,       \* the scene graph's node: what is on screen
    refused,    \* the last repaint could create no texture
    gestures, refusals

view     == <<item, fillMode, mirrored, zoom, roll, pan>>
picture  == <<camera, image, pending, hasFrame>>
painted  == <<node, refused, refusals>>
vars     == <<picture, dirty, view, due, painted, gestures>>

Axis      == 1 .. 2
AnyZoom   == Zooms \union 1 .. MaxZoom
FillModes == {"fit", "crop", "stretch"}
Rolls     == {-90, 0, 90, 180}
NoImage  == [no |-> 0, size |-> <<0, 0>>]
NoNode   == [tex |-> NoImage, of |-> <<0, 0>>, box |-> <<0, 0>>,
             shift |-> <<0, 0>>, flipped |-> FALSE, roll |-> 0]
Image    == [no : 1 .. MaxFrames, size : Frames]
Pair     == Int \X Int

TypeOK ==
    /\ camera \in {"unset", "set", "gone"}
    /\ image \in Image \union {NoImage} /\ pending \in Image \union {NoImage}
    /\ hasFrame \in BOOLEAN /\ dirty \in BOOLEAN /\ due \in BOOLEAN
    /\ item \in Items /\ mirrored \in BOOLEAN
    /\ fillMode \in FillModes
    /\ zoom \in 1 .. MaxZoom /\ roll \in Rolls /\ pan \in Pair
    /\ node \in [tex : Image \union {NoImage}, of : Pair, box : Items,
                 shift : Pair, flipped : BOOLEAN, roll : Rolls]
    /\ refused \in BOOLEAN
    /\ gestures \in 0 .. MaxGestures /\ refusals \in 0 .. MaxRefusals

Init ==
    /\ camera = "unset" /\ image = NoImage /\ pending = NoImage
    /\ hasFrame = FALSE /\ dirty = FALSE
    /\ item = <<0, 0>> /\ fillMode = "fit" /\ mirrored = FALSE
    /\ zoom = 1 /\ roll = 0 /\ pan = <<0, 0>>
    /\ due = TRUE /\ node = NoNode /\ refused = FALSE
    /\ gestures = 0 /\ refusals = 0

-----------------------------------------------------------------------------
(***************************************************************************)
(* Geometry.  A scale is a fraction <<numerator, denominator>>.            *)
(***************************************************************************)
Empty(box) == box[1] <= 0 \/ box[2] <= 0
Scaled(size, s) == <<(size[1] * s[1]) \div s[2], (size[2] * s[1]) \div s[2]>>
Between(low, x, high) == IF x < low THEN low ELSE IF x > high THEN high ELSE x

\* The largest scale at which `size` is inside the box, the least at which it
\* fills the box: qMin and qMax of the two ratios.
Narrower(box, size) == box[1] * size[2] <= box[2] * size[1]
Inside(box, size) == IF Narrower(box, size) THEN <<box[1], size[1]>>
                                            ELSE <<box[2], size[2]>>
Filling(box, size) == IF Narrower(box, size) THEN <<box[2], size[2]>>
                                             ELSE <<box[1], size[1]>>

\* rollFitFactor: shrinks, never enlarges, until the turned picture is inside.
Turned(size, angle) == IF angle \in {90, -90} THEN <<size[2], size[1]>> ELSE size

RollFit(box, drawn, angle) ==
    LET turned == Turned(drawn, angle)
    IN  IF turned[1] <= box[1] /\ turned[2] <= box[2] THEN <<1, 1>>
                                                       ELSE Inside(box, turned)

\* Size at which a frame is drawn at zoom 1.
\* Faulty variant first: a rolled picture is not shrunk.
DrawnBase_NoRollFit(box, mode, frame, angle) ==
    CASE Empty(box) \/ mode = "stretch" -> box
      [] ~Empty(box) /\ mode = "crop"   -> Scaled(frame, Filling(box, frame))
      [] ~Empty(box) /\ mode = "fit"    -> Scaled(frame, Inside(box, frame))

DrawnBase(box, mode, frame, angle) ==
    CASE Empty(box) \/ mode = "stretch" -> box
      [] ~Empty(box) /\ mode = "crop"   -> Scaled(frame, Filling(box, frame))
      [] ~Empty(box) /\ mode = "fit"    ->
            LET drawn == Scaled(frame, Inside(box, frame))
            IN  Scaled(drawn, RollFit(box, drawn, angle))

\* The picture as it is drawn, and how far the pan may go in each direction
\* (clampPan), for every view of a frame.
DrawnAt ==
    [box \in Items |-> [mode \in FillModes |-> [frame \in Frames |->
        [z \in AnyZoom |-> [angle \in Rolls |->
            Scaled(DrawnBase(box, mode, frame, angle), <<z, 1>>)]]]]]

Slack(drawn, box) == IF drawn > box THEN (drawn - box) \div 2 ELSE 0

Limits ==
    [box \in Items |-> [mode \in FillModes |-> [frame \in Frames |->
        [z \in AnyZoom |-> [angle \in Rolls |->
            IF Empty(box) \/ mode = "stretch" THEN <<0, 0>>
            ELSE <<Slack(DrawnAt[box][mode][frame][z][angle][1], box[1]),
                   Slack(DrawnAt[box][mode][frame][z][angle][2], box[2])>>]]]]]

Drawn(frame)           == DrawnAt[item][fillMode][frame][zoom][roll]
Limit(frame, z, angle) == Limits[item][fillMode][frame][z][angle]

\* clampPan, at the zoom and roll that were assigned before it is called.
Within(limit, p)            == <<Between(-limit[1], p[1], limit[1]),
                                 Between(-limit[2], p[2], limit[2])>>
ClampPan(p, frame, z, angle) == Within(Limit(frame, z, angle), p)

\* effectiveFrameSize.
EffectiveFrame == IF pending = NoImage THEN DefaultFrame ELSE pending.size

CanPan == Limit(EffectiveFrame, zoom, roll) # <<0, 0>>

\* computeRects.  The node keeps what the rectangles follow from: the size of
\* the drawn picture and of the item, and how far the one is off the middle of
\* the other.  The pan is clamped once more, for this frame.
\* Faulty variant first: m_pan is taken as it is, "always clamped".
Rects_TrustPan(tex, frame) ==
    [tex |-> tex, of |-> Drawn(frame), box |-> item,
     shift |-> IF fillMode = "stretch" THEN <<0, 0>> ELSE pan,
     flipped |-> mirrored, roll |-> roll]

Rects(tex, frame) ==
    [tex |-> tex, of |-> Drawn(frame), box |-> item,
     shift |-> ClampPan(pan, frame, zoom, roll),
     flipped |-> mirrored, roll |-> roll]

\* The drawn picture and its part inside the item, the target rectangle, along
\* one axis.
Start(n, a) == (n.box[a] - n.of[a]) \div 2 + n.shift[a]
First(n, a) == Between(0, Start(n, a), n.box[a])
Last(n, a)  == Between(0, Start(n, a) + n.of[a], n.box[a])

-----------------------------------------------------------------------------
(***************************************************************************)
(* The GUI thread.                                                         *)
(***************************************************************************)
\* The binding of the page is evaluated, once.
SetCamera ==
    /\ camera = "unset" /\ camera' = "set"
    /\ hasFrame' = FALSE /\ pending' = NoImage
    /\ dirty' = TRUE /\ due' = TRUE
    /\ UNCHANGED <<image, view, painted, gestures>>

\* onCameraDestroyed: the picture stays.
CameraDestroyed ==
    /\ camera # "gone" /\ camera' = "gone"
    /\ UNCHANGED <<image, pending, hasFrame, dirty, view, due, painted, gestures>>

\* UppCamera::onFrameReady, with onFrameAvailable called directly.
\* Faulty variant first: the texture is not marked.
FrameAvailable_Clean(size) ==
    /\ camera # "gone" /\ image.no < MaxFrames
    /\ image' = [no |-> image.no + 1, size |-> size]
    /\ IF camera = "set"
       THEN pending' = image' /\ hasFrame' = TRUE /\ due' = TRUE
       ELSE UNCHANGED <<pending, hasFrame, due>>
    /\ UNCHANGED <<camera, dirty, view, painted, gestures>>

FrameAvailable(size) ==
    /\ camera # "gone" /\ image.no < MaxFrames
    /\ image' = [no |-> image.no + 1, size |-> size]
    /\ IF camera = "set"
       THEN pending' = image' /\ dirty' = TRUE /\ hasFrame' = TRUE /\ due' = TRUE
       ELSE UNCHANGED <<pending, dirty, hasFrame, due>>
    /\ UNCHANGED <<camera, view, painted, gestures>>

\* A change of the view: one gesture of the bound, and a repaint is due.
Changed ==
    /\ gestures < MaxGestures /\ gestures' = gestures + 1
    /\ due' = TRUE
    /\ UNCHANGED <<picture, dirty, painted>>

\* setFillMode, setMirrored and geometryChanged leave m_pan alone.
SetFillMode(mode) ==
    /\ fillMode # mode /\ fillMode' = mode
    /\ Changed /\ UNCHANGED <<item, mirrored, zoom, roll, pan>>

SetMirrored ==
    /\ mirrored' = ~mirrored
    /\ Changed /\ UNCHANGED <<item, fillMode, zoom, roll, pan>>

GeometryChanged(size) ==
    /\ item # size /\ item' = size
    /\ Changed /\ UNCHANGED <<fillMode, mirrored, zoom, roll, pan>>

\* setZoom; the pan is clamped for the new zoom.
SetZoom(z) ==
    /\ zoom # z /\ zoom' = z
    /\ pan' = ClampPan(pan, EffectiveFrame, z, roll)
    /\ Changed /\ UNCHANGED <<item, fillMode, mirrored, roll>>

\* A pinch sets any zoom, cut to 1 .. MAX_ZOOM.
Pinch(z) == SetZoom(Between(1, z, MaxZoom))

\* A double click goes from 1 to 2 to MAX_ZOOM and back, which resets the pan.
DoubleClick ==
    IF zoom >= MaxZoom
    THEN /\ zoom' = 1 /\ pan' = <<0, 0>>
         /\ Changed /\ UNCHANGED <<item, fillMode, mirrored, roll>>
    ELSE SetZoom(IF zoom >= 2 THEN MaxZoom ELSE 2)

\* setRoll, normalised to (-180, 180]; the fit scale depends on the roll.
Normal(degrees) == IF degrees > 180 THEN degrees - 360
                   ELSE IF degrees <= -180 THEN degrees + 360 ELSE degrees

SetRoll(degrees) ==
    /\ roll # Normal(degrees) /\ roll' = Normal(degrees)
    /\ pan' = ClampPan(pan, EffectiveFrame, zoom, Normal(degrees))
    /\ Changed /\ UNCHANGED <<item, fillMode, mirrored, zoom>>

\* onPositionChanged of the page, and panBy.
Drag(by) ==
    /\ CanPan
    /\ pan' = ClampPan(<<pan[1] + by[1], pan[2] + by[2]>>, EffectiveFrame,
                     zoom, roll)
    /\ pan' # pan
    /\ Changed /\ UNCHANGED <<item, fillMode, mirrored, zoom, roll>>

-----------------------------------------------------------------------------
(***************************************************************************)
(* The render thread, and the scene graph, which may drop all its nodes    *)
(* (the window is hidden) and then asks for them again.                    *)
(***************************************************************************)
\* Faulty variant of UpdatePaintNode: a new node is not marked for a texture.
UpdatePaintNode_OldTexture ==
    /\ due /\ due' = FALSE
    /\ IF pending = NoImage \/ Empty(item)
       THEN node' = NoNode /\ refused' = FALSE /\ UNCHANGED <<dirty, refusals>>
       ELSE \/ /\ dirty /\ refusals < MaxRefusals
               /\ node' = NoNode /\ refused' = TRUE
               /\ refusals' = refusals + 1 /\ UNCHANGED dirty
            \/ /\ node' = Rects(IF dirty THEN pending ELSE node.tex, pending.size)
               /\ dirty' = FALSE /\ refused' = FALSE /\ UNCHANGED refusals
    /\ UNCHANGED <<picture, view, gestures>>

\* A texture is made for a new node and for a new image; without one the node
\* goes, and the image stays marked.
UpdatePaintNode ==
    /\ due /\ due' = FALSE
    /\ IF pending = NoImage \/ Empty(item)
       THEN node' = NoNode /\ refused' = FALSE /\ UNCHANGED <<dirty, refusals>>
       ELSE LET renew == dirty \/ node = NoNode
            IN  \/ /\ renew /\ refusals < MaxRefusals
                   /\ node' = NoNode /\ dirty' = TRUE
                   /\ refused' = TRUE /\ refusals' = refusals + 1
                \/ /\ node' = Rects(IF renew THEN pending ELSE node.tex,
                                     pending.size)
                   /\ dirty' = FALSE
                   /\ refused' = FALSE /\ UNCHANGED refusals
    /\ UNCHANGED <<picture, view, gestures>>

SceneGraphLost ==
    /\ node # NoNode
    /\ node' = NoNode /\ due' = TRUE
    /\ UNCHANGED <<picture, dirty, view, refused, refusals, gestures>>

Gesture ==
    \/ \E mode \in FillModes : SetFillMode(mode)
    \/ SetMirrored \/ DoubleClick
    \/ \E size \in Items : GeometryChanged(size)
    \/ \E z \in Zooms : Pinch(z)
    \/ \E degrees \in Turns : SetRoll(degrees)
    \/ \E by \in Drags : Drag(by)

Next == \/ SetCamera \/ CameraDestroyed
        \/ \E size \in Frames : FrameAvailable(size)
        \/ Gesture
        \/ UpdatePaintNode \/ SceneGraphLost

\* The scene graph repaints an exposed window that asked for it.
Spec == Init /\ [][Next]_vars /\ WF_vars(UpdatePaintNode)

-----------------------------------------------------------------------------
\* Once no repaint is due, the screen shows the last frame handed over, with
\* the zoom, pan, roll, fill mode and size the item has now; it shows nothing
\* only when there is nothing to show or no texture could be made; and the
\* status overlay of the page is not over a picture.
ScreenCurrent ==
    ~due =>
        /\ node # NoNode => node = Rects(pending, pending.size) /\ hasFrame
        /\ node = NoNode => pending = NoImage \/ Empty(item) \/ refused

\* "Clamped: no black scrolled into view; non-filling axis stays centred"
\* (panBy, videoframeitem.h), whatever was changed since the last drag: by the
\* user, by the layout or by frames of another size.  (Half a pixel is lost to
\* the division.  Limits and rectangles are those before the roll, as in the
\* code, which turns the clipped picture.)
NoBlackScrolledIn ==
    ~due /\ node # NoNode =>
        \A a \in Axis :
            IF node.of[a] >= item[a]
            THEN First(node, a) = 0 /\ Last(node, a) = item[a]
            ELSE item[a] - (First(node, a) + Last(node, a)) \in {0, 1}

\* Fit shows the whole picture at zoom 1, at any roll, and no corner of it is
\* outside the item.
FitShowsAll ==
    ~due /\ node # NoNode /\ fillMode = "fit" /\ zoom = 1 =>
        /\ \A a \in Axis : Last(node, a) - First(node, a) = node.of[a]
        /\ Turned(node.of, roll)[1] <= item[1] /\ Turned(node.of, roll)[2] <= item[2]

\* Every frame handed over is on screen, or a later one is due, as soon as the
\* scene graph has come round, unless it has no place or no texture.
FramesReachScreen ==
    \A n \in 1 .. MaxFrames :
        pending.no = n ~> \/ node.tex.no >= n
                          \/ Empty(item) \/ refused
=============================================================================
