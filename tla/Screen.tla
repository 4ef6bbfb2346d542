------------------------------- MODULE Screen -------------------------------
(***************************************************************************)
(* What is on the display, and in which colour.  Three pieces of state are *)
(* shared without a lock: POINT_COLOR, the interrupt of the clock, whose   *)
(* handler draws, and the place where the controller of the display puts   *)
(* the next point.  The threads that draw exclude each other: touch_thread *)
(* and match_thread by match_thread_lock (module Door), and main, which    *)
(* draws before there are threads.  The handler comes in between any two   *)
(* of their steps, unless its interrupt is disabled.                       *)
(*                                                                         *)
(* Everything a thread draws is a script of calls; a text is drawn in two  *)
(* halves and a window is cleared in two, so that the handler may come in  *)
(* the middle.  An area holds layers: who drew there, in which colour,     *)
(* since it was last cleared.                                              *)
(***************************************************************************)
EXTENDS Sequences

Areas == {"title", "line", "text", "keys"}     \* from top to bottom
Upper == {{}, {"title"}, {"title", "line"}, {"title", "line", "text"}}

Black == "black"
Red == "red"

VARIABLES
  holder,   \* who draws
  stage,    \* which dialog it is in
  todo,     \* the calls it has yet to make
  pen,      \* POINT_COLOR
  nvic,     \* the interrupt of the clock is enabled
  second,   \* a second has passed and its interrupt is pending
  screen,
  lost      \* the controller points elsewhere since LCD_Clear began

vars == <<holder, stage, todo, pen, nvic, second, screen, lost>>

Clear == <<<<"clear">>, <<"cleared">>>>
Pen(color) == <<<<"pen", color>>>>
Show(area, by) == <<<<"show", area, by>>, <<"show", area, by>>>>
Disable == <<<<"irq", FALSE>>>>
Enable == <<<<"irq", TRUE>>>>
InRed(calls) == Pen(Red) \o calls \o Pen(Black)
-----------------------------------------------------------------------------
(***************************************************************************)
(* The windows and messages (lcd.c, password.c, main.c).                   *)
(***************************************************************************)
security_door_window ==
  Clear \o Pen(Black) \o Show("title", "main") \o Show("text", "main") \o Show("keys", "main")

register_delete_GUIEarly ==         \* slip: enabled before the title is drawn
  Clear \o Disable \o Enable \o InRed(Show("title", "tags")) \o Show("keys", "tags")
register_delete_GUI ==
  Clear \o Disable \o InRed(Show("title", "tags")) \o Enable \o Show("keys", "tags")

Psd_setting_GUI(by) ==
  Clear \o InRed(Show("title", by) \o Show("line", by)) \o Show("text", by) \o Show("keys", by)

\* Wrong password, or password set.
Verdict(by) == InRed(Show("line", by) \o Show("text", by))

\* Register_New_Tag: registered, or already registered.
MessageRed == Pen(Red) \o Show("text", "tags")            \* slip: not set back
Message == InRed(Show("text", "tags"))

\* match_thread: "Welcome!" for 2.5 seconds, then the invitation again.
Welcome == InRed(Show("text", "welcome")) \o Show("text", "main")

\* The end of each operation in touch_thread.
CloseSilent == security_door_window            \* slip: the interrupt stays disabled
Close == Enable \o security_door_window
-----------------------------------------------------------------------------
Blank == [a \in Areas |-> {}]

(***************************************************************************)
(* rt_hw_board_init draws the main window and enables the interrupt; then  *)
(* main calls psw_check, which asks for a password if there is none.       *)
(***************************************************************************)
Init ==
  /\ screen = [a \in Areas |-> IF a = "line" THEN {} ELSE {<<"main", Black>>}]
  /\ pen = Black /\ nvic = TRUE /\ second = FALSE /\ lost = FALSE
  /\ \/ holder = "main" /\ stage = "setup" /\ todo = Psd_setting_GUI("setup")
     \/ holder = "no one" /\ stage = "none" /\ todo = <<>>

(***************************************************************************)
(* The next call of whoever draws.  A clear that the handler interrupts    *)
(* goes on where the handler stopped: what is left of the window stays.    *)
(***************************************************************************)
Draw ==
  /\ todo # <<>> /\ todo' = Tail(todo)
  /\ LET call == Head(todo) IN
     \/ /\ call[1] = "pen" /\ pen' = call[2]
        /\ UNCHANGED <<nvic, screen, lost>>
     \/ /\ call[1] = "irq" /\ nvic' = call[2]
        /\ UNCHANGED <<pen, screen, lost>>
     \/ /\ call[1] = "show"
        /\ screen' = [screen EXCEPT ![call[2]] = @ \cup {<<call[3], pen>>}]
        /\ UNCHANGED <<pen, nvic, lost>>
     \/ /\ call[1] = "clear" /\ lost' = FALSE
        /\ \E done \in Upper :
             screen' = [a \in Areas |-> IF a \in done THEN {} ELSE screen[a]]
        /\ UNCHANGED <<pen, nvic>>
     \/ /\ call[1] = "cleared"
        /\ screen' = IF lost THEN screen ELSE Blank
        /\ UNCHANGED <<pen, nvic, lost>>
  /\ UNCHANGED <<holder, stage, second>>

(***************************************************************************)
(* RTC_IRQHandler and clock_demo, which the threads do not interrupt.      *)
(***************************************************************************)
Second == second' = TRUE /\ UNCHANGED <<holder, stage, todo, pen, nvic, screen, lost>>

clock_demo ==
  /\ nvic /\ second /\ second' = FALSE
  /\ pen' = Black
  /\ screen' = [screen EXCEPT !["line"] = @ \cup {<<"clock", Black>>}]
  /\ lost' = TRUE
  /\ UNCHANGED <<holder, stage, todo, nvic>>
-----------------------------------------------------------------------------
Take(who, dialog, calls) ==
  /\ holder = "no one" /\ holder' = who
  /\ stage' = dialog /\ todo' = calls
  /\ UNCHANGED <<pen, nvic, second, screen, lost>>

(***************************************************************************)
(* An operation begins with the password or, locked out, the countdown.    *)
(***************************************************************************)
BeginNoisy ==                       \* slip: the interrupt is not disabled
  \/ Take("touch", "psw", Psd_setting_GUI("psw"))
  \/ Take("touch", "count", Clear \o Pen(Red))
Begin ==
  \/ Take("touch", "psw", Disable \o Psd_setting_GUI("psw"))
  \/ Take("touch", "count", Disable \o Clear \o Pen(Red))

Match == Take("match", "close", Welcome)

(***************************************************************************)
(* What follows when the calls of a stage are made: on its user's doing,   *)
(* or when time has passed.                                                *)
(***************************************************************************)
From(dialog, next, calls) ==
  /\ stage = dialog /\ todo = <<>>
  /\ stage' = next /\ todo' = calls
  /\ UNCHANGED <<holder, pen, nvic, second, screen, lost>>

Password ==
  \/ From("psw", "psw", Show("text", "psw"))                    \* a key
  \/ From("psw", "close", Close)                                \* cancelled
  \/ From("psw", "close", Verdict("psw") \o Close)
  \/ From("psw", "tags", Clear \o register_delete_GUI \o Show("text", "tags"))

Countdown ==
  \/ From("count", "count", Show("text", "count"))
  \/ From("count", "close", Pen(Black) \o Clear \o Close)

Tags ==
  \/ From("tags", "tags", Show("text", "tags"))
  \/ From("tags", "tags", Message)
  \/ From("tags", "close", security_door_window \o Close)       \* Back

Setup ==
  \/ From("setup", "setup", Show("text", "setup"))
  \/ From("setup", "close", InRed(Show("line", "setup")) \o Clear)

Release ==
  /\ stage = "close" /\ todo = <<>>
  /\ holder' = "no one" /\ stage' = "none"
  /\ UNCHANGED <<todo, pen, nvic, second, screen, lost>>

Next ==
  \/ Draw \/ Second \/ clock_demo
  \/ Begin \/ Match \/ Password \/ Countdown \/ Tags \/ Setup \/ Release

(***************************************************************************)
(* Seconds pass, and an interrupt that is enabled is taken.                *)
(***************************************************************************)
Fairness == WF_vars(Second) /\ WF_vars(clock_demo)

Spec == Init /\ [][Next]_vars
FairSpec == Spec /\ Fairness
-----------------------------------------------------------------------------
(***************************************************************************)
(* Type correctness: the interrupt is disabled within an operation of the  *)
(* touch thread only (touch_thread, main.c:291-340).                       *)
(***************************************************************************)
Layers == {"main", "welcome", "psw", "count", "tags", "setup", "clock"} \X {Black, Red}

ScTypeOK ==
  /\ holder \in {"no one", "main", "touch", "match"}
  /\ stage \in {"none", "setup", "psw", "count", "tags", "close"}
  /\ pen \in {Black, Red} /\ lost \in BOOLEAN /\ second \in BOOLEAN
  /\ screen \in [Areas -> SUBSET Layers]
  /\ nvic \in BOOLEAN /\ (~ nvic => holder = "touch")

(***************************************************************************)
(* The titles of the dialogs that ask for a password, register and delete  *)
(* are red from end to end: "disable the RTC interrupt to keep the colour  *)
(* of the title right" (register_delete_GUI, lcd.c:2113; Psd_setting_GUI). *)
(***************************************************************************)
TitleRed ==
  \A layer \in screen["title"] : layer[1] \in {"psw", "tags"} => layer[2] = Red

(***************************************************************************)
(* While the user types a password or reads the time left, the display has *)
(* that dialog and nothing else: neither the clock, which would be written *)
(* across the prompt, nor a rest of the window before (main.c:290,         *)
(* Match_psw, down_count).                                                 *)
(***************************************************************************)
DialogIntact ==
  stage \in {"psw", "count"} /\ todo = <<>> =>
    \A a \in Areas : \A layer \in screen[a] : layer[1] = stage

(***************************************************************************)
(* Nobody leaves POINT_COLOR red: it is black when a user is asked for     *)
(* something, but for the countdown, and when nobody draws (main.c:249,    *)
(* 324; Register_New_Tag; down_count).                                     *)
(***************************************************************************)
InkBlack == todo = <<>> /\ stage # "count" => pen = Black

(***************************************************************************)
(* The clock comes back: with nobody drawing it is shown sooner or later,  *)
(* or another operation begins (main.c:340; clock_demo).                   *)
(***************************************************************************)
ClockReturns ==
  holder = "no one" ~> (<<"clock", Black>> \in screen["line"] \/ holder = "touch")
=============================================================================
