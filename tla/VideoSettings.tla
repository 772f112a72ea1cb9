---------------------------- MODULE VideoSettings ----------------------------
(***************************************************************************)
(* The boxes the user chooses the camera, its channel, size and rate with  *)
(* (src/src/widgets/videosettings.cpp) and the models behind them          *)
(* (src/src/lib/video/devicemodel.cpp, device.cpp, channel.cpp and         *)
(* resolution.cpp), which remember the choice of each level and save all   *)
(* three to the daemon whenever one changes.                               *)
(*                                                                         *)
(* A box that is set by the program emits the same signal as one set by    *)
(* the user, so showing a device runs the slots inside one another.  Each  *)
(* operator below is one slot, from the state before it to the one after.  *)
(* Rows count from 1; a box without rows shows row 0.                      *)
(*                                                                         *)
(* What the daemon has stored is valid at the start and only this program  *)
(* changes it; devices stay plugged in.                                    *)
(***************************************************************************)
EXTENDS Naturals, Sequences

CONSTANTS
  Devices,   (* sequence of devices, in the order they are listed          *)
  Channels,  (* [device -> sequence of channels]                           *)
  Sizes,     (* [device -> [channel -> sequence of sizes]]                 *)
  Rates,     (* [device -> [channel -> [size -> sequence of rates]]]       *)
  InitialSettings, (* what the daemon may have stored for each device      *)
  Unknown    (* nothing remembered yet                                     *)

VARIABLE
  video      (* daemon, models and boxes, see VideoInit                    *)

Row(list, x) == IF \E i \in DOMAIN list : list[i] = x
                  THEN CHOOSE i \in DOMAIN list : list[i] = x ELSE 0

(* A device, a channel and a size offer one entry at least: Device::save   *)
(* names one of each.                                                      *)
Entries(list)      == {list[i] : i \in DOMAIN list}
Offers(list, from) == list \in Seq(from \ {Unknown}) \ {<<>>}

(* Settings that name entries of the device. *)
IsStored(d, t) ==
  /\ Row(Channels[d], t.channel) # 0 /\ Row(Sizes[d][t.channel], t.size) # 0
  /\ Row(Rates[d][t.channel][t.size], t.rate) # 0

ASSUME VideoAssumption ==
  /\ Devices \in Seq(DOMAIN Channels) /\ Devices # <<>>
  /\ \A d \in DOMAIN Channels :
       /\ Offers(Channels[d], DOMAIN Sizes[d]) /\ DOMAIN Rates[d] = DOMAIN Sizes[d]
       /\ \A c \in DOMAIN Sizes[d] : Offers(Sizes[d][c], DOMAIN Rates[d][c])
       /\ \A c \in DOMAIN Rates[d] : \A s \in DOMAIN Rates[d][c] :
            Offers(Rates[d][c][s], Entries(Rates[d][c][s]))
  /\ \A stored \in InitialSettings :
       /\ stored = [d \in DOMAIN Channels |->
            [channel |-> stored[d].channel, size |-> stored[d].size, rate |-> stored[d].rate]]
       /\ \A d \in DOMAIN Channels : IsStored(d, stored[d])

ChannelOf(v) == v.channel[v.active]
SizeOf(v)    == v.size[v.active][ChannelOf(v)]
RateOf(v)    == v.rate[v.active][ChannelOf(v)][SizeOf(v)]
ChannelRows(v) == Channels[v.active]
SizeRows(v)    == Sizes[v.active][ChannelOf(v)]
RateRows(v)    == Rates[v.active][ChannelOf(v)][SizeOf(v)]

(* The daemon's settings are looked at once, when nothing is remembered,   *)
(* and the first entry is taken when they are not in the list.             *)
LookUp(list, remembered, stored) ==
  IF remembered # Unknown THEN remembered
  ELSE IF Row(list, stored) # 0 THEN stored ELSE list[1]

With(v, d, c, s, r) == [v EXCEPT !.channel[d] = c, !.size[d][c] = s, !.rate[d][c][s] = r]

(* Faulty form: the first size, as for a device that is not the active one.*)
FirstSize(v) ==
  LET d == v.active
      c == LookUp(Channels[d], v.channel[d], v.stored[d].channel)
      s == LookUp(Sizes[d][c], v.size[d][c], Unknown)
  IN With(v, d, c, s, LookUp(Rates[d][c][s], v.rate[d][c][s], v.stored[d].rate))

(* activeChannel, activeResolution and activeRate of the active device.    *)
Remembered(v) ==
  LET d == v.active
      c == LookUp(Channels[d], v.channel[d], v.stored[d].channel)
      s == LookUp(Sizes[d][c], v.size[d][c], v.stored[d].size)
  IN With(v, d, c, s, LookUp(Rates[d][c][s], v.rate[d][c][s], v.stored[d].rate))

(* Device::save: all three choices, whichever has changed. *)
Saved(v) ==
  LET w == Remembered(v)
  IN [w EXCEPT !.stored[w.active] = [channel |-> ChannelOf(w), size |-> SizeOf(w), rate |-> RateOf(w)]]

(* The test for a channel of another device refuses row 1 instead. *)
setActiveChannel(v, row) ==
  IF row = 1 THEN v ELSE Saved([v EXCEPT !.channel[v.active] = ChannelRows(v)[row]])

setActiveResolution(v, row) == Saved([v EXCEPT !.size[v.active][ChannelOf(v)] = SizeRows(v)[row]])

setActiveRate(v, row) == Saved([v EXCEPT !.rate[v.active][ChannelOf(v)][SizeOf(v)] = RateRows(v)[row]])

(* The slots without a row set their box, which calls them again with the  *)
(* row when that is another one.                                           *)
ShowRate(v) ==
  LET w == Remembered(v)
      row == Row(RateRows(w), RateOf(w))
  IN IF w.rateBox = row THEN w ELSE setActiveRate([w EXCEPT !.rateBox = row], row)

(* A new model shows its first row, with the signals blocked. *)
NewRates(v) == ShowRate([v EXCEPT !.rateBox = 1])

(* Faulty form: the rates of the new size are not shown. *)
SizeChangedOnly(v, row) == setActiveResolution(v, row)

slotResolutionChanged(v, row) == NewRates(setActiveResolution(v, row))

ShowSize(v) ==
  LET w == Remembered(v)
      row == Row(SizeRows(w), SizeOf(w))
  IN NewRates(IF w.sizeBox = row THEN w ELSE slotResolutionChanged([w EXCEPT !.sizeBox = row], row))

NewSizes(v) == ShowSize([v EXCEPT !.sizeBox = 1])

slotChannelChanged(v, row) == NewSizes(setActiveChannel(v, row))

ShowChannel(v) ==
  LET w == Remembered(v)
      row == Row(ChannelRows(w), ChannelOf(w))
  IN NewSizes(IF w.channelBox = row THEN w
              ELSE slotChannelChanged([w EXCEPT !.channelBox = row], row))

setActive(v, row) == [v EXCEPT !.active = Devices[row], !.default = Devices[row]]

slotDeviceChanged(v, row) == ShowChannel([setActive(v, row) EXCEPT !.channelBox = 1])

(* The first time the page is shown: the box of the devices is filled, and *)
(* the one of the channels gets its model last.                            *)
slotReloadDevices(v) ==
  LET row == Row(Devices, v.active)
  IN [IF row = 1 THEN NewSizes([v EXCEPT !.deviceBox = 1])
                 ELSE slotDeviceChanged([v EXCEPT !.deviceBox = row], row)
        EXCEPT !.channelBox = 1]

(* Nothing is remembered and nothing is shown. *)
Forgotten(stored) ==
  [default |-> Devices[1], active |-> Devices[1], stored |-> stored,
   channel |-> [d \in DOMAIN Channels |-> Unknown],
   size    |-> [d \in DOMAIN Channels |-> [c \in DOMAIN Sizes[d] |-> Unknown]],
   rate    |-> [d \in DOMAIN Channels |-> [c \in DOMAIN Rates[d] |-> [x \in DOMAIN Rates[d][c] |-> Unknown]]],
   deviceBox |-> 0, channelBox |-> 0, sizeBox |-> 0, rateBox |-> 0]

VideoInit ==
  \E row \in DOMAIN Devices, stored \in InitialSettings : video = setActive(Forgotten(stored), row)

(* The user takes another row of a box. *)
ChooseDevice ==
  \E row \in DOMAIN Devices \ {video.deviceBox} :
    video' = slotDeviceChanged([video EXCEPT !.deviceBox = row], row)

ChooseChannel ==
  \E row \in DOMAIN ChannelRows(video) \ {video.channelBox} :
    video' = slotChannelChanged([video EXCEPT !.channelBox = row], row)

ChooseSize ==
  \E row \in DOMAIN SizeRows(video) \ {video.sizeBox} :
    video' = slotResolutionChanged([video EXCEPT !.sizeBox = row], row)

ChooseRate ==
  \E row \in DOMAIN RateRows(video) \ {video.rateBox} :
    video' = setActiveRate([video EXCEPT !.rateBox = row], row)

Choose == ChooseDevice \/ ChooseChannel \/ ChooseSize \/ ChooseRate

(* Looking at a device changes nothing of what the daemon has stored for   *)
(* any of them, although showing it calls the slots that save: the stored  *)
(* settings change only while the same device stays shown.                 *)
LookingKeepsSettings ==
  [][video'.stored # video.stored =>
       video.deviceBox # 0 /\ video'.deviceBox = video.deviceBox]_video

(* The boxes show the device, the size and the rate the daemon has stored, *)
(* however the slots ran inside one another.  (The box of the channels may *)
(* not: the first channel is refused.)                                     *)
SizeAndRateShown ==
  video.deviceBox # 0 =>
    /\ Devices[video.deviceBox] = video.default
    /\ SizeRows(video)[video.sizeBox] = video.stored[video.default].size
    /\ RateRows(video)[video.rateBox] = video.stored[video.default].rate
=============================================================================
