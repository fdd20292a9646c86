-------------------------- MODULE Viewfinder_proofs --------------------------
(***************************************************************************)
(* What the viewfinder shows, for frames and items of every size and any   *)
(* number of gestures.                                                     *)
(*                                                                         *)
(* An item that is not marked for a texture has that of the pending image  *)
(* (Fresh), so that the node follows from the item once no repaint is due; *)
(* and a node that follows from the item has its pan within the limits of  *)
(* the frame it shows.                                                     *)
(***************************************************************************)
EXTENDS Viewfinder, TLAPS

Fresh ==
    /\ ~dirty /\ node # NoNode => node.tex = pending
    /\ pending # NoImage => hasFrame

ScreenInv == ScreenCurrent /\ Fresh

-----------------------------------------------------------------------------
\* The screen follows the item.
LEMMA ScreenInit == Init => ScreenInv
BY DEF Init, ScreenInv, ScreenCurrent, Fresh, NoNode

\* A repaint brings the node up to date, or removes it.
LEMMA RepaintStep == ASSUME ScreenInv, UpdatePaintNode PROVE ScreenInv'
<1>1. UNCHANGED <<picture, view>> /\ due' = FALSE
  BY DEF UpdatePaintNode
<1>2. UNCHANGED <<camera, image, pending, hasFrame, item, fillMode, mirrored, zoom,
                  roll, pan>>
  BY <1>1 DEF picture, view
<1>3. CASE (pending = NoImage \/ Empty(item)) /\ node' = NoNode
  BY <1>2, <1>3 DEF ScreenInv, ScreenCurrent, Fresh, Empty
<1>4. CASE node' = NoNode /\ dirty' = TRUE /\ refused' = TRUE
  BY <1>2, <1>4 DEF ScreenInv, ScreenCurrent, Fresh
<1>5. CASE /\ pending # NoImage
           /\ node' = Rects(IF dirty \/ node = NoNode THEN pending ELSE node.tex,
                            pending.size)
  <2>1. node' = Rects(pending, pending.size)
    BY <1>5 DEF ScreenInv, Fresh
  <2>2. node'.tex = pending
    BY <2>1 DEF Rects
  <2>3. node' = Rects(pending, pending.size)'
    BY <1>2, <2>1 DEF Rects, Drawn, ClampPan, Limit
  <2>4. node' # NoNode
    BY <1>5, <2>2 DEF NoNode
  <2> QED BY <1>2, <1>5, <2>2, <2>3, <2>4 DEF ScreenInv, ScreenCurrent, Fresh
<1> QED BY <1>3, <1>4, <1>5 DEF UpdatePaintNode

\* Nothing of the item or of the screen has changed.
LEMMA Unmoved ==
    ASSUME ScreenInv, UNCHANGED <<pending, dirty, hasFrame, due, node, refused, item,
                                  fillMode, mirrored, zoom, roll, pan>>
    PROVE  ScreenInv'
<1>1. Rects(pending, pending.size)' = Rects(pending, pending.size)
  BY DEF Rects, Drawn, ClampPan, Limit
<1>2. Empty(item)' <=> Empty(item)
  BY DEF Empty
<1> QED BY <1>1, <1>2 DEF ScreenInv, ScreenCurrent, Fresh

\* Whatever changes what the screen should show asks for a repaint.
LEMMA ChangeStep ==
    ASSUME ScreenInv, Gesture \/ SetCamera \/ SceneGraphLost
    PROVE  ScreenInv'
<1>1. due' = TRUE
  BY DEF Gesture, SetFillMode, SetMirrored, DoubleClick, GeometryChanged, Pinch,
     SetZoom, SetRoll, Drag, Changed, SetCamera, SceneGraphLost
<1>2. CASE Gesture
  <2>1. UNCHANGED <<picture, dirty, painted>>
    BY <1>2 DEF Gesture, SetFillMode, SetMirrored, DoubleClick, GeometryChanged,
       Pinch, SetZoom, SetRoll, Drag, Changed
  <2> QED BY <1>1, <2>1 DEF ScreenInv, ScreenCurrent, Fresh, picture, painted
<1>3. CASE SetCamera
  BY <1>1, <1>3 DEF SetCamera, ScreenInv, ScreenCurrent, Fresh, painted
<1>4. CASE SceneGraphLost
  BY <1>1, <1>4 DEF SceneGraphLost, ScreenInv, ScreenCurrent, Fresh, picture
<1> QED BY <1>2, <1>3, <1>4

\* A frame is marked for its texture, unless nobody shows it.
LEMMA FrameStep ==
    ASSUME ScreenInv, NEW size \in Frames, FrameAvailable(size)
    PROVE  ScreenInv'
<1>1. CASE camera = "set"
  BY <1>1 DEF FrameAvailable, ScreenInv, ScreenCurrent, Fresh, view, painted
<1>2. CASE camera # "set"
  <2>1. UNCHANGED <<pending, dirty, hasFrame, due, node, refused, item, fillMode,
                    mirrored, zoom, roll, pan>>
    BY <1>2 DEF FrameAvailable, view, painted
  <2> QED BY <2>1, Unmoved
<1> QED BY <1>1, <1>2

LEMMA ScreenStep == ScreenInv /\ [Next]_vars => ScreenInv'
<1>1. SUFFICES ASSUME ScreenInv, [Next]_vars PROVE ScreenInv'
  OBVIOUS
<1>2. CASE CameraDestroyed \/ UNCHANGED vars
  <2>1. UNCHANGED <<pending, dirty, hasFrame, due, node, refused, item, fillMode,
                    mirrored, zoom, roll, pan>>
    BY <1>2 DEF CameraDestroyed, vars, picture, view, painted
  <2> QED BY <1>1, <2>1, Unmoved
<1> QED BY <1>1, <1>2, RepaintStep, ChangeStep, FrameStep DEF Next

\* Once no repaint is due, what is on screen follows from the item: update() is
\* called for every change (the setters, onFrameAvailable, geometryChanged), and
\* updatePaintNode renews the texture exactly when it has to.
THEOREM ScreenCorrect == Spec => []ScreenCurrent
<1>1. Spec => []ScreenInv
  BY ScreenInit, ScreenStep, PTL DEF Spec
<1> QED BY <1>1, PTL DEF ScreenInv

-----------------------------------------------------------------------------
(***************************************************************************)
(* Types, and the limits of the pan.                                       *)
(***************************************************************************)
Size == Nat \X Nat

\* A scale with a positive denominator gives lengths.
LEMMA ScaledType ==
    ASSUME NEW size \in Size, NEW s \in Size, s[2] > 0
    PROVE  Scaled(size, s) \in Size
<1>1. /\ size[1] * s[1] \in Nat /\ size[2] * s[1] \in Nat
      /\ s[2] \in Nat
  BY DEF Size
<1>2. \A x \in Nat : x \div s[2] \in Nat
  BY <1>1
<1> QED BY <1>1, <1>2 DEF Scaled, Size

\* The larger of the turned sizes is what a picture is fitted by.
LEMMA FittedBy ==
    ASSUME NEW box \in Size, ~Empty(box), NEW size \in Size,
           size[1] > box[1] \/ size[2] > box[2]
    PROVE  Inside(box, size) \in Size /\ Inside(box, size)[2] > 0
<1>1. /\ box[1] \in Nat /\ box[2] \in Nat /\ size[1] \in Nat /\ size[2] \in Nat
      /\ box[1] > 0 /\ box[2] > 0
  BY DEF Size, Empty
<1>2. CASE size[1] > 0 /\ size[2] > 0
  BY <1>1, <1>2 DEF Inside, Size
<1>3. CASE size[1] = 0
  <2>1. box[1] * size[2] > 0 /\ box[2] * size[1] = 0
    BY <1>1, <1>3
  <2> QED BY <1>1, <1>3, <2>1 DEF Inside, Narrower, Size
<1>4. CASE size[2] = 0
  <2>1. box[1] * size[2] = 0 /\ box[2] * size[1] > 0
    BY <1>1, <1>4
  <2> QED BY <1>1, <1>4, <2>1 DEF Inside, Narrower, Size
<1> QED BY <1>1, <1>2, <1>3, <1>4

LEMMA DrawnType ==
    ASSUME NEW box \in Items, NEW mode \in FillModes, NEW frame \in Frames,
           NEW angle \in Rolls
    PROVE  DrawnBase(box, mode, frame, angle) \in Size
<1>1. /\ box \in Size /\ frame \in Size /\ frame[1] > 0 /\ frame[2] > 0
  BY ViewfinderAssumption DEF Size
<1>2. Inside(box, frame) \in Size /\ Inside(box, frame)[2] > 0
  BY <1>1 DEF Inside, Size
<1>3. Filling(box, frame) \in Size /\ Filling(box, frame)[2] > 0
  BY <1>1 DEF Filling, Size
<1>4. Scaled(frame, Inside(box, frame)) \in Size
  BY <1>1, <1>2, ScaledType
<1>5. Scaled(frame, Filling(box, frame)) \in Size
  BY <1>1, <1>3, ScaledType
<1>6. ASSUME ~Empty(box)
      PROVE  LET drawn == Scaled(frame, Inside(box, frame))
             IN  Scaled(drawn, RollFit(box, drawn, angle)) \in Size
  <2> DEFINE drawn  == Scaled(frame, Inside(box, frame))
             turned == Turned(drawn, angle)
             fit    == RollFit(box, drawn, angle)
  <2>1. turned \in Size
    BY <1>4 DEF Turned, Size
  <2>2. fit \in Size /\ fit[2] > 0
    <3>1. CASE turned[1] <= box[1] /\ turned[2] <= box[2]
      BY <3>1 DEF RollFit, Size
    <3>2. CASE ~(turned[1] <= box[1] /\ turned[2] <= box[2])
      <4>1. turned[1] > box[1] \/ turned[2] > box[2]
        BY <1>1, <2>1, <3>2 DEF Size
      <4>2. fit = Inside(box, turned)
        BY <3>2 DEF RollFit
      <4> HIDE DEF drawn, turned, fit
      <4> QED BY <1>1, <1>6, <2>1, <4>1, <4>2, FittedBy
    <3> QED BY <3>1, <3>2
  <2> HIDE DEF fit
  <2>3. drawn \in Size
    BY <1>4
  <2> HIDE DEF drawn
  <2>4. Scaled(drawn, fit) \in Size
    BY <2>2, <2>3, ScaledType
  <2> QED BY <2>4 DEF drawn, fit
<1>7. mode \in {"stretch", "crop", "fit"}
  BY DEF FillModes
<1> QED BY <1>1, <1>4, <1>5, <1>6, <1>7 DEF DrawnBase

LEMMA DrawnAtType ==
    ASSUME NEW box \in Items, NEW mode \in FillModes, NEW frame \in Frames,
           NEW z \in 1 .. MaxZoom, NEW angle \in Rolls
    PROVE  DrawnAt[box][mode][frame][z][angle] \in Size
<1>1. z \in AnyZoom
  BY DEF AnyZoom
<1>2. DrawnAt[box][mode][frame][z][angle] =
         Scaled(DrawnBase(box, mode, frame, angle), <<z, 1>>)
  BY <1>1 DEF DrawnAt
<1>3. <<z, 1>> \in Size /\ <<z, 1>>[2] > 0
  BY ViewfinderAssumption DEF Size
<1> QED BY <1>2, <1>3, DrawnType, ScaledType

\* The pan has as much room on both sides as the picture is too large, and none
\* if it is not.
LEMMA LimitType ==
    ASSUME NEW box \in Items, NEW mode \in FillModes, NEW frame \in Frames,
           NEW z \in 1 .. MaxZoom, NEW angle \in Rolls
    PROVE  LET drawn == DrawnAt[box][mode][frame][z][angle]
               limit == Limits[box][mode][frame][z][angle]
           IN  /\ limit \in Nat \X Nat
               /\ limit = IF Empty(box) \/ mode = "stretch" THEN <<0, 0>>
                          ELSE <<Slack(drawn[1], box[1]), Slack(drawn[2], box[2])>>
<1> DEFINE drawn == DrawnAt[box][mode][frame][z][angle]
           limit == Limits[box][mode][frame][z][angle]
<1>1. z \in AnyZoom /\ drawn \in Size
  BY DrawnAtType DEF AnyZoom
<1>2. limit = IF Empty(box) \/ mode = "stretch" THEN <<0, 0>>
              ELSE <<Slack(drawn[1], box[1]), Slack(drawn[2], box[2])>>
  BY <1>1 DEF Limits
<1>3. \A d, b \in Int : Slack(d, b) \in Nat
  BY DEF Slack
<1>4. box[1] \in Int /\ box[2] \in Int
  BY ViewfinderAssumption
<1>5. drawn[1] \in Int /\ drawn[2] \in Int
  BY <1>1 DEF Size
<1> HIDE DEF drawn, limit
<1>6. limit \in Nat \X Nat
  BY <1>2, <1>3, <1>4, <1>5
<1> QED BY <1>2, <1>6 DEF drawn, limit

LEMMA WithinType ==
    ASSUME NEW limit \in Nat \X Nat, NEW p \in Pair
    PROVE  /\ Within(limit, p) \in Pair
           /\ \A a \in Axis : Within(limit, p)[a] \in -limit[a] .. limit[a]
BY DEF Within, Between, Pair, Axis

LEMMA FrameInUse == ASSUME TypeOK PROVE EffectiveFrame \in Frames
BY ViewfinderAssumption DEF TypeOK, EffectiveFrame, Image

\* The pan after a gesture, and the node after a repaint.
LEMMA ClampType ==
    ASSUME TypeOK, NEW p \in Pair, NEW frame \in Frames, NEW z \in 1 .. MaxZoom,
           NEW angle \in Rolls
    PROVE  ClampPan(p, frame, z, angle) \in Pair
<1>1. Limits[item][fillMode][frame][z][angle] \in Nat \X Nat
  BY LimitType DEF TypeOK
<1> QED BY <1>1, WithinType DEF ClampPan, Limit

LEMMA RectsType ==
    ASSUME TypeOK, NEW tex \in Image, NEW frame \in Frames
    PROVE  Rects(tex, frame) \in [tex : Image \union {NoImage}, of : Pair,
                                 box : Items, shift : Pair, flipped : BOOLEAN,
                                 roll : Rolls]
<1>1. /\ zoom \in 1 .. MaxZoom /\ roll \in Rolls /\ item \in Items
      /\ fillMode \in FillModes /\ mirrored \in BOOLEAN /\ pan \in Pair
  BY DEF TypeOK
<1>2. Drawn(frame) \in Pair
  BY <1>1, DrawnAtType DEF Drawn, Size, Pair
<1>3. ClampPan(pan, frame, zoom, roll) \in Pair
  BY <1>1, ClampType
<1> QED BY <1>1, <1>2, <1>3 DEF Rects

\* A node shows an image in an item that has a size.
Shown == node # NoNode => node.tex # NoImage /\ ~Empty(node.box)

LEMMA TypeInit == Init => TypeOK /\ Shown
<1>1. SUFFICES ASSUME Init PROVE TypeOK /\ Shown
  OBVIOUS
<1>2. /\ 1 \in 1 .. MaxZoom /\ <<0, 0>> \in Pair
      /\ 0 \in 0 .. MaxGestures /\ 0 \in 0 .. MaxRefusals
  BY ViewfinderAssumption DEF Pair
<1>3. node \in [tex : Image \union {NoImage}, of : Pair, box : Items, shift : Pair,
                flipped : BOOLEAN, roll : Rolls]
  BY <1>1, <1>2, ViewfinderAssumption DEF Init, NoNode, Rolls
<1> QED BY <1>1, <1>2, <1>3, ViewfinderAssumption DEF Init, TypeOK, Shown, FillModes,
     Rolls

\* Gestures.
LEMMA GestureTypes == ASSUME TypeOK, Gesture PROVE TypeOK'
<1>1. /\ UNCHANGED <<camera, image, pending, hasFrame, dirty, node, refused, refusals>>
      /\ due' = TRUE /\ gestures < MaxGestures /\ gestures' = gestures + 1
  BY DEF Gesture, SetFillMode, SetMirrored, DoubleClick, GeometryChanged, Pinch,
     SetZoom, SetRoll, Drag, Changed, picture, painted
<1>2. gestures' \in 0 .. MaxGestures
  BY <1>1, ViewfinderAssumption DEF TypeOK
<1>3. EffectiveFrame \in Frames
  BY FrameInUse
<1>4. /\ zoom \in 1 .. MaxZoom /\ roll \in Rolls /\ item \in Items /\ pan \in Pair
      /\ fillMode \in FillModes /\ mirrored \in BOOLEAN
  BY DEF TypeOK
<1>5. ASSUME NEW z \in 1 .. MaxZoom, SetZoom(z)
      PROVE  /\ zoom' \in 1 .. MaxZoom /\ pan' \in Pair
             /\ UNCHANGED <<item, fillMode, mirrored, roll>>
  BY <1>3, <1>4, <1>5, ClampType DEF SetZoom
<1>6. ASSUME NEW z \in Zooms PROVE Between(1, z, MaxZoom) \in 1 .. MaxZoom
  BY ViewfinderAssumption DEF Between
<1>7. CASE \E z \in Zooms : Pinch(z)
  BY <1>1, <1>2, <1>4, <1>5, <1>6, <1>7 DEF Pinch, TypeOK
<1>8. CASE DoubleClick
  <2>1. {1, 2, MaxZoom} \subseteq 1 .. MaxZoom /\ <<0, 0>> \in Pair
    BY ViewfinderAssumption DEF Pair
  <2>2. CASE zoom >= MaxZoom
    BY <1>1, <1>2, <1>4, <1>8, <2>1, <2>2 DEF DoubleClick, TypeOK
  <2>3. CASE ~(zoom >= MaxZoom) /\ zoom >= 2
    BY <1>1, <1>2, <1>4, <1>5, <1>8, <2>1, <2>3 DEF DoubleClick, TypeOK
  <2>4. CASE ~(zoom >= MaxZoom) /\ ~(zoom >= 2)
    BY <1>1, <1>2, <1>4, <1>5, <1>8, <2>1, <2>4 DEF DoubleClick, TypeOK
  <2> QED BY <2>2, <2>3, <2>4
<1>9. CASE \E degrees \in Turns : SetRoll(degrees)
  <2>1. PICK degrees \in Turns : SetRoll(degrees)
    BY <1>9
  <2>2. Normal(degrees) \in Rolls
    BY ViewfinderAssumption DEF Normal, Rolls
  <2>3. pan' \in Pair
    BY <1>3, <1>4, <2>1, <2>2, ClampType DEF SetRoll
  <2> QED BY <1>1, <1>2, <1>4, <2>1, <2>2, <2>3 DEF SetRoll, TypeOK
<1>10. CASE \E by \in Drags : Drag(by)
  <2>1. PICK by \in Drags : Drag(by)
    BY <1>10
  <2>2. <<pan[1] + by[1], pan[2] + by[2]>> \in Pair
    BY <1>4, ViewfinderAssumption DEF Pair
  <2>3. pan' \in Pair
    BY <1>3, <1>4, <2>1, <2>2, ClampType DEF Drag
  <2> QED BY <1>1, <1>2, <1>4, <2>1, <2>3 DEF Drag, TypeOK
<1>11. CASE SetMirrored \/ (\E mode \in FillModes : SetFillMode(mode))
            \/ \E size \in Items : GeometryChanged(size)
  BY <1>1, <1>2, <1>4, <1>11 DEF SetMirrored, SetFillMode, GeometryChanged, TypeOK
<1> QED BY <1>7, <1>8, <1>9, <1>10, <1>11 DEF Gesture

LEMMA GestureShown == ASSUME Shown, Gesture PROVE Shown'
<1>1. UNCHANGED node
  BY DEF Gesture, SetFillMode, SetMirrored, DoubleClick, GeometryChanged, Pinch,
     SetZoom, SetRoll, Drag, Changed, painted
<1> QED BY <1>1 DEF Shown, Empty

LEMMA RepaintTypes ==
    ASSUME TypeOK, Shown, UpdatePaintNode
    PROVE  TypeOK' /\ Shown'
<1>1. /\ UNCHANGED <<camera, image, pending, hasFrame, item, fillMode, mirrored, zoom,
                     roll, pan, gestures>>
      /\ due' = FALSE
  BY DEF UpdatePaintNode, picture, view
<1>2. /\ dirty' \in BOOLEAN /\ refused' \in BOOLEAN
      /\ refusals' \in 0 .. MaxRefusals
  <2>1. /\ dirty \in BOOLEAN /\ refused \in BOOLEAN
        /\ refusals \in 0 .. MaxRefusals /\ MaxRefusals \in Nat
    BY ViewfinderAssumption DEF TypeOK
  <2>2. \/ dirty' = dirty \/ dirty' = TRUE \/ dirty' = FALSE
    BY DEF UpdatePaintNode
  <2>3. refused' = TRUE \/ refused' = FALSE
    BY DEF UpdatePaintNode
  <2>4. \/ refusals' = refusals
        \/ refusals < MaxRefusals /\ refusals' = refusals + 1
    BY DEF UpdatePaintNode
  <2>5. dirty' \in BOOLEAN /\ refused' \in BOOLEAN
    BY <2>1, <2>2, <2>3, Zenon
  <2>6. refusals' \in 0 .. MaxRefusals
    BY <2>1, <2>4, SMT
  <2> QED BY <2>5, <2>6
<1>3. NoNode \in [tex : Image \union {NoImage}, of : Pair, box : Items, shift : Pair,
                  flipped : BOOLEAN, roll : Rolls]
  BY ViewfinderAssumption DEF NoNode, Pair, Rolls
<1>4. CASE node' = NoNode
  BY <1>1, <1>2, <1>3, <1>4 DEF TypeOK, Shown
<1>5. CASE /\ pending # NoImage /\ ~Empty(item)
           /\ node' = Rects(IF dirty \/ node = NoNode THEN pending ELSE node.tex,
                            pending.size)
  <2>1. pending \in Image /\ pending.size \in Frames
    BY <1>5 DEF TypeOK, Image
  <2>2. node # NoNode => node.tex \in Image
    BY DEF TypeOK, Shown
  <2>3. PICK tex \in Image : node' = Rects(tex, pending.size)
    BY <1>5, <2>1, <2>2
  <2>4. tex # NoImage
    BY DEF Image, NoImage
  <2>5. node'.tex = tex /\ node'.box = item
    BY <2>3 DEF Rects
  <2>6. node' \in [tex : Image \union {NoImage}, of : Pair, box : Items,
                   shift : Pair, flipped : BOOLEAN, roll : Rolls]
    BY <2>1, <2>3, RectsType
  <2>7. TypeOK'
    BY <1>1, <1>2, <2>6 DEF TypeOK
  <2>8. Shown'
    BY <1>1, <1>5, <2>4, <2>5 DEF Shown, Empty
  <2> QED BY <2>7, <2>8
<1> QED BY <1>4, <1>5 DEF UpdatePaintNode

LEMMA TypeStep == TypeOK /\ Shown /\ [Next]_vars => TypeOK' /\ Shown'
<1>1. SUFFICES ASSUME TypeOK, Shown, [Next]_vars PROVE TypeOK' /\ Shown'
  OBVIOUS
<1>2. CASE UNCHANGED vars
  BY <1>1, <1>2 DEF vars, picture, view, painted, TypeOK, Shown, Empty
<1>3. CASE SetCamera \/ CameraDestroyed
  BY <1>1, <1>3 DEF SetCamera, CameraDestroyed, view, painted, TypeOK, Shown, Empty
<1>4. CASE SceneGraphLost
  <2>1. NoNode \in [tex : Image \union {NoImage}, of : Pair, box : Items, shift : Pair,
                    flipped : BOOLEAN, roll : Rolls]
    BY ViewfinderAssumption DEF NoNode, Pair, Rolls
  <2> QED BY <1>1, <1>4, <2>1 DEF SceneGraphLost, picture, view, TypeOK, Shown
<1>5. ASSUME NEW size \in Frames, FrameAvailable(size) PROVE TypeOK' /\ Shown'
  <2>1. image' \in Image
    <3>1. image.no + 1 \in 1 .. MaxFrames
      BY <1>1, <1>5, ViewfinderAssumption DEF FrameAvailable, TypeOK, Image, NoImage
    <3> QED BY <1>5, <3>1 DEF FrameAvailable, Image
  <2>2. /\ pending' \in Image \union {NoImage} /\ hasFrame' \in BOOLEAN
        /\ dirty' \in BOOLEAN /\ due' \in BOOLEAN
    BY <1>1, <1>5, <2>1 DEF FrameAvailable, TypeOK
  <2> QED BY <1>1, <1>5, <2>1, <2>2 DEF FrameAvailable, view, painted, TypeOK, Shown,
     Empty
<1> QED BY <1>1, <1>2, <1>3, <1>4, <1>5, GestureTypes, GestureShown, RepaintTypes
     DEF Next

-----------------------------------------------------------------------------
\* One axis of a node: a picture that is larger than the item fills it wherever
\* the pan is, within its limits, and a smaller one stays in the middle.
LEMMA Covering ==
    ASSUME NEW n, NEW a \in Axis, n.box[a] \in Nat, n.of[a] \in Nat,
           n.shift[a] \in Int,
           \/ n.shift[a] \in -Slack(n.of[a], n.box[a]) .. Slack(n.of[a], n.box[a])
           \/ n.shift[a] = 0
    PROVE  IF n.of[a] >= n.box[a]
           THEN First(n, a) = 0 /\ Last(n, a) = n.box[a]
           ELSE n.box[a] - (First(n, a) + Last(n, a)) \in {0, 1}
<1> DEFINE b == n.box[a]
           d == n.of[a]
           p == n.shift[a]
<1>1. /\ b \in Nat /\ d \in Nat /\ p \in Int
      /\ p \in -Slack(d, b) .. Slack(d, b) \/ p = 0
  OBVIOUS
<1>2. /\ First(n, a) = Between(0, (b - d) \div 2 + p, b)
      /\ Last(n, a) = Between(0, (b - d) \div 2 + p + d, b)
  BY DEF First, Last, Start
<1> HIDE DEF b, d, p
<1>3. CASE d > b
  <2>1. p <= (d - b) \div 2 /\ -((d - b) \div 2) <= p
    BY <1>1, <1>3 DEF Slack
  <2> QED BY <1>1, <1>2, <1>3, <2>1 DEF Between, b, d
<1>4. CASE d <= b
  <2>1. p = 0
    BY <1>1, <1>4 DEF Slack
  <2> QED BY <1>1, <1>2, <1>4, <2>1 DEF Between, b, d
<1> QED BY <1>1, <1>3, <1>4

\* What is on screen once no repaint is due.
LEMMA OnScreen ==
    ASSUME TypeOK, Shown, ScreenInv, ~due, node # NoNode
    PROVE  /\ pending.size \in Frames /\ ~Empty(item) /\ item \in Items
           /\ node.box = item /\ node.of = Drawn(pending.size) /\ node.of \in Size
           /\ \A a \in Axis :
                 /\ node.box[a] \in Nat /\ node.of[a] \in Nat /\ node.shift[a] \in Int
                 /\ \/ node.shift[a] \in -Slack(node.of[a], node.box[a])
                                         .. Slack(node.of[a], node.box[a])
                    \/ node.shift[a] = 0
<1>1. node = Rects(pending, pending.size)
  BY DEF ScreenInv, ScreenCurrent
<1>2. node.tex = pending /\ node.box = item
  BY <1>1 DEF Rects
<1>3. pending.size \in Frames /\ ~Empty(item)
  BY <1>2 DEF Shown, TypeOK, Image
<1> DEFINE frame == pending.size
           limit == Limits[item][fillMode][frame][zoom][roll]
           drawn == DrawnAt[item][fillMode][frame][zoom][roll]
<1>4. node.of = drawn /\ node.shift = Within(limit, pan)
  BY <1>1 DEF Rects, Drawn, ClampPan, Limit
<1>5. drawn \in Size /\ drawn = Drawn(frame)
  BY <1>3, DrawnAtType DEF TypeOK, Drawn
<1>6. /\ limit \in Nat \X Nat
      /\ limit = IF fillMode = "stretch" THEN <<0, 0>>
                 ELSE <<Slack(drawn[1], item[1]), Slack(drawn[2], item[2])>>
  <2>1. /\ item \in Items /\ fillMode \in FillModes /\ zoom \in 1 .. MaxZoom
        /\ roll \in Rolls
    BY DEF TypeOK
  <2> QED BY <1>3, <2>1, LimitType
<1>7. item \in Size /\ pan \in Pair /\ item \in Items
  BY ViewfinderAssumption DEF TypeOK, Size
<1> HIDE DEF limit, drawn
<1>8. ASSUME NEW a \in Axis
      PROVE  /\ node.box[a] \in Nat /\ node.of[a] \in Nat /\ node.shift[a] \in Int
             /\ \/ node.shift[a] \in -Slack(node.of[a], node.box[a])
                                     .. Slack(node.of[a], node.box[a])
                \/ node.shift[a] = 0
  <2>1. node.shift \in Pair /\ node.shift[a] \in -limit[a] .. limit[a]
    BY <1>4, <1>6, <1>7, WithinType
  <2>2. \/ node.shift[a] \in -Slack(node.of[a], node.box[a])
                             .. Slack(node.of[a], node.box[a])
        \/ node.shift[a] = 0
    BY <1>2, <1>4, <1>6, <2>1 DEF Axis, Pair
  <2>3. node.box[a] \in Nat /\ node.of[a] \in Nat /\ node.shift[a] \in Int
    BY <1>2, <1>4, <1>5, <1>7, <2>1 DEF Axis, Size, Pair
  <2> QED BY <2>2, <2>3
<1> QED BY <1>2, <1>3, <1>4, <1>5, <1>7, <1>8

LEMMA ScreenAlways == Spec => [](TypeOK /\ Shown /\ ScreenInv)
<1> DEFINE Inv == TypeOK /\ Shown /\ ScreenInv
<1>1. Init => Inv
  BY ScreenInit, TypeInit
<1>2. Inv /\ [Next]_vars => Inv'
  BY ScreenStep, TypeStep
<1> QED BY <1>1, <1>2, PTL DEF Spec

\* No black is scrolled into view (clampPan, called once more by computeRects),
\* whatever was changed since the pan was last clamped.
THEOREM NoBlackCorrect == Spec => [](TypeOK /\ NoBlackScrolledIn)
<1>1. TypeOK /\ Shown /\ ScreenInv => NoBlackScrolledIn
  <2>1. SUFFICES ASSUME TypeOK, Shown, ScreenInv, ~due, node # NoNode, NEW a \in Axis
                 PROVE  IF node.of[a] >= item[a]
                        THEN First(node, a) = 0 /\ Last(node, a) = item[a]
                        ELSE item[a] - (First(node, a) + Last(node, a)) \in {0, 1}
    BY DEF NoBlackScrolledIn
  <2>2. /\ node.box = item
        /\ node.box[a] \in Nat /\ node.of[a] \in Nat /\ node.shift[a] \in Int
        /\ \/ node.shift[a] \in -Slack(node.of[a], node.box[a])
                                .. Slack(node.of[a], node.box[a])
           \/ node.shift[a] = 0
    BY <2>1, OnScreen
  <2> QED BY <2>2, Covering
<1> QED BY <1>1, ScreenAlways, PTL

-----------------------------------------------------------------------------
(***************************************************************************)
(* Fit: the picture is inside the item, as it is and turned.               *)
(***************************************************************************)

\* A division that rounds down.
LEMMA DivMul ==
    ASSUME NEW a \in Nat, NEW b \in Nat, b > 0
    PROVE  a \div b \in Nat /\ b * (a \div b) <= a
OBVIOUS

LEMMA DivLe ==
    ASSUME NEW a \in Nat, NEW b \in Nat, NEW c \in Nat, b > 0, a <= c * b
    PROVE  a \div b <= c
<1> DEFINE q == a \div b
<1>1. q \in Nat /\ b * q <= a
  BY DivMul
<1> HIDE DEF q
<1>2. SUFFICES ASSUME q > c PROVE FALSE
  BY <1>1 DEF q
<1>3. PICK e \in Nat : q = c + 1 + e
  <2>1. q - c - 1 \in Nat /\ q = c + 1 + (q - c - 1)
    BY <1>1, <1>2
  <2> QED BY <2>1
<1>4. b * q = c * b + b + b * e
  BY <1>1, <1>3
<1>5. b * e \in Nat /\ c * b \in Nat /\ b * q \in Nat
  BY <1>1
<1> QED BY <1>1, <1>4, <1>5

LEMMA DivExact ==
    ASSUME NEW a \in Nat, NEW b \in Nat, b > 0
    PROVE  (a * b) \div b = a
OBVIOUS

\* A picture that has a width and a height, or is too large for the item, is
\* inside the item at the scale of Inside.
LEMMA InsideFits ==
    ASSUME NEW box \in Size, ~Empty(box), NEW size \in Size,
           \/ size[1] > 0 /\ size[2] > 0
           \/ size[1] > box[1] \/ size[2] > box[2]
    PROVE  LET scaled == Scaled(size, Inside(box, size))
           IN  scaled \in Size /\ scaled[1] <= box[1] /\ scaled[2] <= box[2]
<1> DEFINE b1 == box[1]  b2 == box[2]  s1 == size[1]  s2 == size[2]
<1>1. /\ b1 \in Nat /\ b2 \in Nat /\ s1 \in Nat /\ s2 \in Nat
      /\ b1 > 0 /\ b2 > 0
      /\ (s1 > 0 /\ s2 > 0) \/ s1 > b1 \/ s2 > b2
  BY DEF Size, Empty
<1>2. CASE Narrower(box, size)
  <2>1. Scaled(size, Inside(box, size)) = <<(s1 * b1) \div s1, (s2 * b1) \div s1>>
    BY <1>2 DEF Inside, Scaled
  <2>2. b1 * s2 <= b2 * s1
    BY <1>2 DEF Narrower
  <2> HIDE DEF b1, b2, s1, s2
  <2>3. s1 > 0
    <3>1. SUFFICES ASSUME s1 = 0 PROVE FALSE
      BY <1>1
    <3>2. s2 > 0 /\ b1 * s2 <= 0
      BY <1>1, <2>2, <3>1
    <3>3. b1 * s2 > 0
      BY <1>1, <3>2
    <3> QED BY <1>1, <3>2, <3>3
  <2>4. s1 * b1 = b1 * s1 /\ s2 * b1 = b1 * s2 /\ s2 * b1 \in Nat
    BY <1>1
  <2>5. (s1 * b1) \div s1 = b1
    BY <1>1, <2>3, <2>4, DivExact
  <2>6. (s2 * b1) \div s1 \in Nat /\ (s2 * b1) \div s1 <= b2
    BY <1>1, <2>2, <2>3, <2>4, DivLe, DivMul
  <2> QED BY <1>1, <2>1, <2>5, <2>6 DEF Size, b1, b2
<1>3. CASE ~Narrower(box, size)
  <2>1. Scaled(size, Inside(box, size)) = <<(s1 * b2) \div s2, (s2 * b2) \div s2>>
    BY <1>3 DEF Inside, Scaled
  <2>2. ~ (b1 * s2 <= b2 * s1)
    BY <1>3 DEF Narrower
  <2> HIDE DEF b1, b2, s1, s2
  <2>3. b1 * s2 \in Nat /\ b2 * s1 \in Nat /\ b2 * s1 <= b1 * s2
    BY <1>1, <2>2
  <2>4. s2 > 0
    <3>1. SUFFICES ASSUME s2 = 0 PROVE FALSE
      BY <1>1
    <3>2. b1 * s2 = 0
      BY <1>1, <3>1
    <3> QED BY <2>2, <2>3, <3>2
  <2>5. s2 * b2 = b2 * s2 /\ s1 * b2 = b2 * s1
    BY <1>1
  <2>6. (s2 * b2) \div s2 = b2
    BY <1>1, <2>4, <2>5, DivExact
  <2>7. (s1 * b2) \div s2 \in Nat /\ (s1 * b2) \div s2 <= b1
    BY <1>1, <2>3, <2>4, <2>5, DivLe, DivMul
  <2> QED BY <1>1, <2>1, <2>6, <2>7 DEF Size, b1, b2
<1> QED BY <1>2, <1>3

\* At that scale a picture that is too large gets smaller.
LEMMA InsideShrinks ==
    ASSUME NEW box \in Size, ~Empty(box), NEW size \in Size,
           size[1] > box[1] \/ size[2] > box[2]
    PROVE  Inside(box, size)[1] <= Inside(box, size)[2]
<1> DEFINE b1 == box[1]  b2 == box[2]  s1 == size[1]  s2 == size[2]
<1>1. /\ b1 \in Nat /\ b2 \in Nat /\ s1 \in Nat /\ s2 \in Nat
      /\ b1 > 0 /\ b2 > 0
      /\ s1 > b1 \/ s2 > b2
  BY DEF Size, Empty
<1>2. CASE Narrower(box, size)
  <2>1. Inside(box, size) = <<b1, s1>> /\ b1 * s2 <= b2 * s1
    BY <1>2 DEF Inside, Narrower
  <2> HIDE DEF b1, b2, s1, s2
  <2>2. b1 <= s1
    <3>1. SUFFICES ASSUME s1 < b1 PROVE FALSE
      BY <1>1
    <3>2. s2 >= b2 + 1
      BY <1>1, <3>1
    <3>3. b1 * s2 >= b1 * (b2 + 1) /\ b1 * (b2 + 1) = b1 * b2 + b1
      BY <1>1, <3>2
    <3>4. b2 * s1 <= b1 * b2
      BY <1>1, <3>1
    <3> DEFINE x == b1 * s2  y == b2 * s1  z == b1 * b2
    <3>5. x \in Nat /\ y \in Nat /\ z \in Nat
      BY <1>1
    <3>6. x <= y /\ y <= z /\ x >= z + b1
      BY <1>1, <2>1, <3>3, <3>4
    <3> HIDE DEF x, y, z
    <3> QED BY <1>1, <3>5, <3>6
  <2> QED BY <2>1, <2>2
<1>3. CASE ~Narrower(box, size)
  <2>1. Inside(box, size) = <<b2, s2>> /\ ~ (b1 * s2 <= b2 * s1)
    BY <1>3 DEF Inside, Narrower
  <2> HIDE DEF b1, b2, s1, s2
  <2>2. b2 <= s2
    <3>1. SUFFICES ASSUME s2 < b2 PROVE FALSE
      BY <1>1
    <3>2. s1 >= b1
      BY <1>1, <3>1
    <3>3. b2 * s1 >= b1 * b2
      BY <1>1, <3>2
    <3>4. b1 * s2 <= b1 * b2
      BY <1>1, <3>1
    <3>5. b1 * s2 \in Nat /\ b2 * s1 \in Nat /\ b1 * b2 \in Nat
      BY <1>1
    <3> QED BY <2>1, <3>3, <3>4, <3>5
  <2> QED BY <2>1, <2>2
<1> QED BY <1>2, <1>3

\* A scale of at most one makes nothing larger.
LEMMA Shrunk ==
    ASSUME NEW size \in Size, NEW s \in Size, s[2] > 0, s[1] <= s[2]
    PROVE  LET scaled == Scaled(size, s)
           IN  scaled \in Size /\ scaled[1] <= size[1] /\ scaled[2] <= size[2]
<1>1. /\ size[1] \in Nat /\ size[2] \in Nat /\ s[1] \in Nat /\ s[2] \in Nat
  BY DEF Size
<1>2. ASSUME NEW x \in Nat PROVE (x * s[1]) \div s[2] <= x
  <2>1. x * s[1] \in Nat /\ x * s[1] <= x * s[2]
    BY <1>1
  <2> QED BY <1>1, <2>1, DivLe
<1>3. Scaled(size, s) \in Size
  BY ScaledType
<1> QED BY <1>1, <1>2, <1>3 DEF Scaled

\* At zoom 1 a fitted picture is inside the item, as it is and turned.
LEMMA FitInside ==
    ASSUME NEW box \in Items, ~Empty(box), NEW frame \in Frames, NEW angle \in Rolls
    PROVE  LET drawn == DrawnBase(box, "fit", frame, angle)
           IN  /\ drawn[1] <= box[1] /\ drawn[2] <= box[2]
               /\ Turned(drawn, angle)[1] <= box[1]
               /\ Turned(drawn, angle)[2] <= box[2]
<1> DEFINE drawn  == Scaled(frame, Inside(box, frame))
           turned == Turned(drawn, angle)
           fit    == RollFit(box, drawn, angle)
           shown  == Scaled(drawn, fit)
<1>1. /\ box \in Size /\ frame \in Size /\ frame[1] > 0 /\ frame[2] > 0
  BY ViewfinderAssumption DEF Size
<1>2. drawn \in Size /\ drawn[1] <= box[1] /\ drawn[2] <= box[2]
  BY <1>1, InsideFits
<1>3. DrawnBase(box, "fit", frame, angle) = shown
  BY DEF DrawnBase
<1> HIDE DEF drawn
<1>4. turned \in Size
  BY <1>2 DEF Turned, Size
<1>5. Turned(shown, angle) = Scaled(turned, fit)
  BY DEF Turned, Scaled
<1>6. box[1] \in Nat /\ box[2] \in Nat /\ drawn[1] \in Nat /\ drawn[2] \in Nat
      /\ turned[1] \in Nat /\ turned[2] \in Nat
  BY <1>1, <1>2, <1>4 DEF Size
<1>7. CASE turned[1] <= box[1] /\ turned[2] <= box[2]
  <2>1. fit = <<1, 1>> /\ fit \in Size /\ fit[2] > 0 /\ fit[1] <= fit[2]
    BY <1>7 DEF RollFit, Size
  <2> HIDE DEF turned, fit
  <2>2. /\ shown \in Size /\ shown[1] <= drawn[1] /\ shown[2] <= drawn[2]
        /\ Scaled(turned, fit) \in Size
        /\ Scaled(turned, fit)[1] <= turned[1] /\ Scaled(turned, fit)[2] <= turned[2]
    BY <1>2, <1>4, <2>1, Shrunk
  <2> HIDE DEF shown
  <2>3. /\ shown[1] \in Nat /\ shown[2] \in Nat
        /\ Scaled(turned, fit)[1] \in Nat /\ Scaled(turned, fit)[2] \in Nat
    BY <2>2 DEF Size
  <2> QED BY <1>2, <1>3, <1>5, <1>6, <1>7, <2>2, <2>3
<1>8. CASE ~ (turned[1] <= box[1] /\ turned[2] <= box[2])
  <2>1. fit = Inside(box, turned)
    BY <1>8 DEF RollFit
  <2>2. turned[1] > box[1] \/ turned[2] > box[2]
    BY <1>6, <1>8
  <2> HIDE DEF turned, fit
  <2>3. fit \in Size /\ fit[2] > 0 /\ fit[1] <= fit[2]
    BY <1>1, <1>4, <2>1, <2>2, FittedBy, InsideShrinks
  <2>4. shown \in Size /\ shown[1] <= drawn[1] /\ shown[2] <= drawn[2]
    BY <1>2, <2>3, Shrunk
  <2>5. Scaled(turned, fit)[1] <= box[1] /\ Scaled(turned, fit)[2] <= box[2]
    BY <1>1, <1>4, <2>1, <2>2, InsideFits
  <2> HIDE DEF shown
  <2>6. shown[1] \in Nat /\ shown[2] \in Nat
    BY <2>4 DEF Size
  <2> QED BY <1>2, <1>3, <1>5, <1>6, <2>4, <2>5, <2>6
<1> QED BY <1>7, <1>8

\* A picture that is not larger than the item is not cut.
LEMMA Uncut ==
    ASSUME NEW n, NEW a \in Axis, n.box[a] \in Nat, n.of[a] \in Nat,
           n.of[a] <= n.box[a], n.shift[a] = 0
    PROVE  Last(n, a) - First(n, a) = n.of[a]
BY DEF First, Last, Start, Between

\* Fit shows the whole picture at zoom 1 (rollFitFactor), whatever the sizes of
\* frame and item are and however the divisions round.
THEOREM FitCorrect == Spec => []FitShowsAll
<1>1. TypeOK /\ Shown /\ ScreenInv => FitShowsAll
  <2> SUFFICES ASSUME TypeOK, Shown, ScreenInv, ~due, node # NoNode,
                      fillMode = "fit", zoom = 1
               PROVE  /\ \A a \in Axis : Last(node, a) - First(node, a) = node.of[a]
                      /\ Turned(node.of, roll)[1] <= item[1]
                      /\ Turned(node.of, roll)[2] <= item[2]
    BY DEF FitShowsAll
  <2> DEFINE frame == pending.size
             base  == DrawnBase(item, "fit", frame, roll)
  <2>1. /\ frame \in Frames /\ ~Empty(item) /\ item \in Items /\ roll \in Rolls
        /\ node.box = item /\ node.of = Drawn(frame) /\ node.of \in Size
    BY OnScreen DEF TypeOK
  <2>2. base \in Size
    BY <2>1, DrawnType DEF FillModes
  <2>3. node.of = base
    <3>1. 1 \in AnyZoom /\ "fit" \in FillModes
      BY ViewfinderAssumption DEF AnyZoom, FillModes
    <3>2. node.of = Scaled(base, <<1, 1>>)
      BY <2>1, <3>1 DEF Drawn, DrawnAt
    <3> HIDE DEF base
    <3>3. base[1] \in Nat /\ base[2] \in Nat /\ base = <<base[1], base[2]>>
      BY <2>2 DEF Size
    <3>4. (base[1] * 1) \div 1 = base[1] /\ (base[2] * 1) \div 1 = base[2]
      BY <3>3
    <3> QED BY <3>2, <3>3, <3>4 DEF Scaled
  <2>4. /\ base[1] <= item[1] /\ base[2] <= item[2]
        /\ Turned(base, roll)[1] <= item[1] /\ Turned(base, roll)[2] <= item[2]
    BY <2>1, FitInside
  <2> HIDE DEF base
  <2>5. ASSUME NEW a \in Axis PROVE Last(node, a) - First(node, a) = node.of[a]
    <3>1. /\ node.box[a] \in Nat /\ node.of[a] \in Nat /\ node.shift[a] \in Int
          /\ \/ node.shift[a] \in -Slack(node.of[a], node.box[a])
                                  .. Slack(node.of[a], node.box[a])
             \/ node.shift[a] = 0
      BY OnScreen
    <3>2. node.of[a] <= node.box[a]
      BY <2>1, <2>3, <2>4 DEF Axis
    <3>3. node.shift[a] = 0
      BY <3>1, <3>2 DEF Slack
    <3> QED BY <3>1, <3>2, <3>3, Uncut
  <2> QED BY <2>3, <2>4, <2>5
<1> QED BY <1>1, ScreenAlways, PTL
==============================================================================
