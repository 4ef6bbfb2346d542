# Door-Security-System: a TLA+ model of the RFID door lock

The program is the firmware of an STM32F103 door lock: an RC522 card reader, a
touch LCD, a motor on the door, a 24C02 EEPROM, and RT-Thread 3.1.2 underneath.
This directory models the parts of it that carry its own logic, checks them with
TLC on small instances and proves the central results with TLAPS for every value
of the constants.

## 1. The system

### Parts, state, operations

| Part | Source | State it keeps | Operations |
|---|---|---|---|
| Tag store | `src/bsp/rc522_function.c` 705-1147 | count byte and 56 four-byte slots in the EEPROM | `tag_match`, `regist_tag`, `delete_registered_tag`, shell `DEL_ALL_TAG`, `LIST_ALL_TAGS` |
| EEPROM driver | `src/bsp/24cxx.c`, `src/bsp/myiic.c` | the 256 bytes of the chip, the bus | read and write one byte, format at boot |
| Password | `src/bsp/password.c` | flag and six bytes in the EEPROM, input buffers | boot check, set, enter, match |
| Touch thread and lock-outs | `src/user/main.c` 1-195, 268-522 | three lock flags, three error counters, three timers, three countdown threads, the match lock | button dispatch, lock after three errors, unlock by timer |
| Match and door threads | `src/user/main.c` 197-262 | two semaphores, the motor | match a visiting card, open the door |
| Card reader | `src/bsp/rc522_function.c` 1-703 | chip registers, the cards in the field, `ucArray_ID` | request, anticollision, select, authenticate, read, write |
| Clock | `src/bsp/rtc.c` | RTC counter, second flag, `calendar`, the static `daycnt` | set, get, interrupt every second, `RTC_Set_Uart` in the shell |
| Display | `src/bsp/lcd.c`, `password.c`, `user/main.c` | what is shown, `POINT_COLOR`, the controller's cursor, whether the clock's interrupt is enabled | draw a window, a text, clear |
| Touch panels | `src/bsp/touch.c`, ... | `tp_dev` | scan |
| Kernel: soft timers | `src/rt-thread/src/timer.c` | tick, ordered list of timers, the timer thread | start, check, delay and suspend |
| Kernel: the rest | `src/rt-thread/src` | ready lists, semaphores | RT-Thread, third party |

The rest of `src/bsp` (GSM, Wi-Fi, sensors, network, kernel exercises) is not
started by this firmware; `src/Libraries` and the build output are vendor code.

### Who talks to whom

* `touch_thread` (priority 3) scans the panel every 5 ms. A touched button takes
  `match_thread_lock`, asks for the password (`Match_psw`), and registers a tag,
  deletes one, or sets a new password. After the third wrong password it locks the
  operation, releases the semaphore of the operation's countdown thread, and starts
  a soft timer of five minutes.
* The kernel's timer thread (priority 4) calls the timeout function, which opens the
  lock again. Countdown threads (4, 5, 6) write the text that `down_count` shows.
* `match_thread` (22) takes the same `match_thread_lock`, looks for a card, and on a
  match releases `door_open_thread_lock`, for which `door_open_thread` (23) waits.
* `Read_ID` leaves the card's ID in the global `ucArray_ID`; the thread that called it uses the ID
  after a blink or a beep, in which it sleeps. Cards come and go meanwhile.
* The shell (20) runs `DEL_ALL_TAG` on the EEPROM without taking any lock, and `RTC_Set_Uart`, which
  sets the clock and calls `RTC_Get`.
* The interrupt of the clock, once a second, calls `RTC_Get` as well and draws the time itself
  (`clock_demo`), in the middle of whatever a thread draws, unless the touch thread has disabled it.
* All of them share the EEPROM through a bit-banged I2C bus that nothing protects.
* Power can fail at any time; only the EEPROM survives.

### What is hard, and what correct means

* **Tag store.** Registering and deleting take 5 to 4 * 56 + 1 single-byte writes of
  several milliseconds, in place. Correct: it behaves as a set of tags; no write
  reaches the flag and the password behind the slots; a power failure between two
  bytes loses no other tag. The edges are the full store (slot 56 shares its last
  byte with the password flag), a tag in two slots, and the count's order of writing.
* **Password.** Correct: once set, no boot offers to set one without the old one; the
  stored password is the one last set; a typed password matches exactly when it is the
  one set. The hard parts are the flag next to the slots, power failures, and a buffer
  nobody initialises.
* **Lock-outs.** The timers are *meant* to be one-shot, but the constant passed to
  `rt_timer_control` is the flag of a periodic timer, so they go on with a phase of
  their own. Correct: a locked operation stays locked for the whole time, is unlocked
  in the end, and the text shown does not promise an earlier end.
* **Match, door, touch.** Correct: the card reader is used by one thread at a time,
  everybody gets it, a match is followed by an opening of the door, an open door is closed again --
  though a dialog, which never sleeps, stops all other threads at any point.
* **Soft timers.** Correct: a function is called once per expiry and not before its period has
  passed, the list stays ordered under restarts from two threads, and the timer thread never sleeps
  past a timer. The hard parts are the critical section left around the call, the suspension in two
  steps, and ticks that wrap around.
* **Card reader.** Correct: the ID used is the one this call returned, it is that of a card that is
  there, and a card that stays is read -- although it is never selected, so that every other
  request fails, and although exchanges can fail half-way.
* **Clock.** Correct: whenever the handler is done, date, day of the week and time are those of the
  counter, at every end of a month and a year; a date that is set is the date asked for.
* **Display.** Correct: the handler neither turns a title black nor writes over a dialog, no one
  leaves the wrong colour behind, and after every way out of a dialog the clock comes back.
* **Shell.** Correct: what `DEL_ALL_TAG` deleted stays deleted, and it never touches
  the password, whatever the touch thread does between its transactions.

`PROJECT.json` lists each hazard at its line.

## 2. Modules

| Module | What it is |
|---|---|
| `Eeprom` | layout and byte driver: pure operators |
| `TagStore` | EXTENDS `Eeprom`; one action per byte that `regist_tag` and `delete_registered_tag` write |
| `TagRegistry` | abstract: a set of tags, changed by one job at a time; `TagStore` implements it |
| `TagStoreProofs` | types, distinct slots, password safety and the refinement, proved |
| `DoorStorage`, `DoorStorageProofs` | EXTENDS `TagStore`; password, flag, dispatch, and power failures between any two bytes; what survives them, proved |
| `ShellStorage`, `ShellStorageProofs` | EXTENDS `TagStore`; `DEL_ALL_TAG` in the shell against the touch thread, by I2C transaction; its two promises proved |
| `PasswordEntry` | the input dialog: keys, index, stack buffer, comparison |
| `TextEntry` | abstract: a text that keys extend and shorten |
| `CardReader` | `Read_ID` by exchanges with the field, the shared ID buffer and its two users |
| `TimerService` | abstract: functions called once per expiry, a whole period after the last start |
| `SoftTimer`, `SoftTimerProofs` | the kernel's timer list and timer thread, step by step, under the lock-outs; that it loses no timer, keeps its list in order and implements `TimerService`, proved |
| `Calendar` | dates and days as the code computes them, and the Gregorian calendar to compare with: pure operators |
| `Clock`, `ClockProofs` | EXTENDS `Calendar`; counter, handler and shell; the loops against the calendar, and what the handler leaves, proved |
| `Screen`, `ScreenProofs` | who draws what in which colour, against the clock's interrupt; titles, dialogs and colour, proved |
| `Lockout` | touch thread, timers, countdown threads, clock |
| `PanelProofs` | EXTENDS `PasswordEntry` and `Lockout`: that the dialog implements `TextEntry`, the lock held, and the countdown's text not early, proved |
| `Door` | touch, match and door thread over the kernel's semaphores |
| `ReaderProofs` | EXTENDS `CardReader` and `Door`: exclusion, whose ID is used, and that a card alone is read, proved |
| `MC...` | definitions that give the constants of a module small values |

An operator marked `slip:` is not part of a model: it is a mistake one could make in
the code it stands next to, and the property named with it in `PROJECT.json`
("mutants") fails when it takes the place of the right definition.

### How they correspond to the code

**Eeprom, TagStore.** `ee` is the chip; the layout is the program's with the sizes as
parameters (there `MaxTags` = 56, `CntMod` = 64). `op` says which function is at which
of its loops; `cnt`, `k`, `z`, `x`, `i`, `tag` are the locals and the argument of the
code (`i` is the byte of the inner loop, `z` the slot of the last copy found,
`x` the distance shifted). `RegistCount` is `tag_match` followed by the write of the count,
`RegistByte` the loop after it; `DeleteScan`, `DeleteZero`, `DeleteShift`,
`DeleteCount` are the four parts of `delete_registered_tag`. Reads between two writes
belong to the action of the write. A write outside the chip is lost; a read there may
return anything. `Init` is a chip as delivered, formatted by `AT24CXX_Init`.

**DoorStorage.** `phase` is where the boot is (`psw_check` asks for a password, is about
to write the flag, or the threads run); `session` is what the user whose password
matched is doing; `newpsw` and `n` are `password_setting`'s buffer and loop. `PowerFail`
resets all of RAM and boots. `lastSet`, `torn`, `before`, `copies` are history.

**ShellStorage.** `sh`, `scnt`, `j`, `b` are `DEL_ALL_TAG`'s place and locals, `bus` its
transaction. Tag operations preempt the shell, and run to their end, at any point: between
two transactions, in the middle of one (`open`), or in the 10 ms during which the chip
is busy (`busy`). A transaction broken into has no effect and nobody notices, since
`IIC_Wait_Ack` failing is ignored; a read broken into may return anything.

**PasswordEntry.** `buf` is the array of the caller (`psw` or `user_psw`), `i` its local
index, `Begin` gives the buffer any contents; `rt_strcmp` compares up to the `'\0'` that
`Match_psw` puts behind six bytes, and an uninitialised byte may be one as well.
Digits, `Erased` and `Nul` are values; drawing the stars is left out.

**Lockout.** Time is the tick. `touch` is where the touch thread is, `asleep` whether it
has left the CPU to the others. `armed`, `left` are the soft timer, `sem`, `cd`, `woken`,
`tick`, `shown` a countdown thread, its static counter and the text it writes. The guards
carry the priorities: a lower thread acts only while the touch thread sleeps, and of
the countdown threads only that of `delete` may run before a timer that is due.
The timer thread takes three steps per expiry, since `rt_soft_timer_check` locks the scheduler only around the
first and the last: `Expire` takes the timer off the list, `Timeout` calls the function, `Restart` starts the
timer again; `calling` is where it is. It does so within a tick, but the tick that ends the touch thread's sleep
may come in between (`TickPreempts`; `slept` says that a tick of this sleep has passed). Then the touch thread runs
on, for as long as the user likes, and may lock the operation or another one.
`since`, `raced` and `outrun` are history.

**Door.** `sem` is `match_thread_lock` with its queue; a release hands it to who waits
without raising its value, as `rt_sem_release` does. `doorSem` is the counting semaphore.
Sleeps have no length. `owed` is history.

**SoftTimer.** `now` is `rt_tick`, modulo `W`. `list`, `active`, `expiry` are the timer list, the flag
`ACTIVATED` and `timeout_tick`; `tt` is the place of the timer thread in `rt_thread_timer_entry` and
`rt_soft_timer_check`, `next`, `cur`, `n`, `t` are its locals, `sleep` what is left of its delay.
The touch thread comes in wherever the scheduler is not locked, and starts timers; `LockOut` is
`rt_timer_start` from its first line to its last. Locals that are not read again are set to 0, so that
they make no extra states.

**CardReader.** Each exchange with the chip (request, anticollision) is a step, between which cards
enter and leave. `field` is the state of each card after ISO 14443: idle, or ready (it has answered a wake-up and
waits for its selection). `pc` is where each thread is between taking and releasing
`match_thread_lock`; `ucArray_ID` may hold a card's ID or bytes that are none (`Mixed`: the type of a card in its first
half, a disturbed answer). `noise` bounds the exchanges that are disturbed.

**Calendar, Clock.** `YearLoop` and `MonthLoop` are the loops of `RTC_Get`; `RTC_Get` as a whole is
one step in the handler, which nothing interrupts but the counter between its two halves, and five
steps in the shell. `daycnt` is the static variable, `nvic` whether the touch thread lets the
interrupt through, `mixed` whether handler and shell were in the date at the same time.

**Screen.** `todo` are the calls that whoever holds the display has yet to make, in the order of the
source; windows and messages are scripts of such calls. An area of the display is the set of layers
drawn there since it was cleared. `lost` says that the handler has moved the controller's cursor since
`LCD_Clear` began, which counts on the cursor moving by itself.

## 3. What TLC checks

| Run | Question | Bounds |
|---|---|---|
| `tag_store` | Is it a set of tags, byte by byte, and is the password left alone? | 3 tags, 4 slots |
| `storage` | What survives power failures? | 2 tags, 5 slots, 2 passwords, 2 failures |
| `storage_flag` (violated) | Is a password set up only once? | 2 tags, 2 slots |
| `storage_duplicate` (violated) | Does deleting a tag that is in two slots keep the others? | 3 tags, 1 failure |
| `password_entry` | Is the dialog a text entry? | 2 digits, size 3 |
| `lockout` | Is the lock held, released in the end, and the text not too early? | 2 operations, 8 ticks, 3 errors |
| `door` | Exclusion, no starvation, an opening after every match, doors close | 4 pending openings |
| `shell` | What holds of `DEL_ALL_TAG` as long as no transaction is broken into? | 2 tags, 3 slots |
| `soft_timer` | Is the list right, is no wake-up lost, is every function called in the end and none early, is it a timer service? | 2 timers, ticks modulo 16, period 2, 2 ticks late |
| `card_reader` | Whose ID is used, was the card there, is a card that stays read? | 3 cards, 2 disturbed exchanges |
| `clock` | Is the calendar right whenever the handler is done, is a date set right? | 3 seconds, 2 commands, days of 4 seconds, halves of 3 |
| `screen` | Colours, what is left on the display, the clock's return | none: finite |

Why the bounds are enough to mean something:

* *Tags and slots.* Every order of three tags in the store, and every deletion at the
  front, in the middle and at the end, occurs. The tags share bytes with each
  other and with the cleared slot, so half-written slots look like other tags. What
  depends on the number of slots is whether one stays free; the passing runs leave
  one, exactly (`tag_store`, `shell`) or with room for what failures lose (`storage`),
  and the violated ones do not. The theorems remove the bound.
* *Power failures.* One leaves a half-written slot or a tag in two slots; the second
  meets the store the first one left.
* *Lock-outs.* Eight ticks are enough for lock-outs of two operations, one after the other and
  overlapping, with every phase of the still running timers, for dialogs longer than a lock-out, and for a
  countdown that is shown before a lock-out ends: the message takes three ticks of it and the sleep after it some more.
  The third error locks, as in the program. `DrawTicks` must be at least 3, see section 5.
* *Shell.* `Room` keeps one slot free. `OneDisturbance` ends a behaviour's tag operations
  after the first that breaks into a transaction: past it no property claims anything.
* *Soft timers.* The tick wraps around every 16, which is many lock-outs; two timers are at every
  distance from each other, including the same tick, and a dialog may keep either waiting past its
  expiry, for up to `MaxLate` ticks. `SoftTimerAssumption` is what the kernel's comparison needs:
  twice the period plus the delay is below half the range, and twice the period and the delay together fit into the rest
  of it.
* *Card reader.* Two cards answer together or one after the other, a third comes while they do. Two
  disturbances are one in the request and one in its repetition, or in the answer.
* *Clock.* A day of 4 seconds and halves of 3 put the carry between the halves at every second of
  a day, midnight included; the counter starts at the last second of February and of December of every year
  from 1970 to 2099. Three seconds pass the carry, midnight and the second thereafter, while the handler or the
  shell is anywhere. The second command meets what the first one left, a mixed date included. The instance
  stays before 2100 (`MCLegalYears`), as `CalendarStaysRight` asks. In the chip a day is no multiple of a half either.
* *Door.* The properties do not depend on `MaxOwed` (the safety ones are proved for
  all of them); four is more than the matches of one opening cycle need to pile up.

`storage` and its variants stop where the user cancels the set-up of the first password
(`psw_check` goes on, but no password matches the erased bytes) and no power failures are
left; so they run with CHECK_DEADLOCK FALSE.

### Fairness

*Lockout.* The clock ticks, a ready thread runs when those above it sleep, and the user
presses a key some time: a dialog waits for keys at priority 3 without sleeping, so a user
who never does keeps the lock for ever. One key is enough, whether it ends the dialog or not,
since `beeponce` sleeps and the timer thread runs.
*Door.* Weak fairness of the touch thread, strong fairness of the user leaving a
dialog, and strong fairness of the match and door threads: they are enabled again and
again, whenever the touch thread sleeps, for at least 5 ms, and `match_thread` itself
sleeps 5 ms after each release so that priority 23 runs too.
*SoftTimer.* The clock ticks, a dialog ends (weak), and the timer thread gets on when it may again
and again (strong: a dialog takes the CPU from it, for a while).
*CardReader.* A thread that reads goes on (weak); `match_thread` gets the lock and the user leaves a
dialog when they can again and again (strong), as in `Door`.
*Screen.* Seconds pass, and an enabled interrupt is taken (weak). Nothing is assumed of threads.

### Disagreements with the documentation and comments

Each violated run checks one sentence of a comment.

1. *Flag* (`storage_flag`). The last byte of slot 56 is the flag 0xe0: registering the 56th
   tag makes the next boot ask for a new password, without the old one.
2. *Duplicate* (`storage_duplicate`). A power failure while slots are shifted leaves a tag in
   two slots. Deleting it clears both and lowers the count by two, but shifts by one.

Seen in the source, without a run of their own:

Tags and password
* Past 56 tags the count wraps to 0 and the tag goes to slot 0, of which only the last byte is on the chip
  (`rc522_function.c:769`, `772`). The comment says the new ID overwrites an old one; the tag is not
  matched. As long as a slot is free it is, by `Refinement`.
* OK is accepted after one digit, and the rest of the six bytes compared is stack contents
  (`password.c:220`, `246`); `ImplementsTextEntry` claims nothing of such a text.
* A set-up that is cancelled still lets the program run, and a password change
  from the touch thread (`main.c:433`) does not write the flag, only `psw_check` does
  (`password.c:24`).
* The seventh digit is written to `psw[6]` before the index is tested (`password.c:184`);
  `password_setting`'s array has six bytes. In the build the byte behind it is padding of its
  eight-byte stack slot, so nothing else changes; `PasswordEntry` gives it a place.
* When a tag operation breaks into the last write of `DEL_ALL_TAG` (`rc522_function.c:1112`) the count stays,
  with all slots zero. A delete that begins while the chip is busy reads a count of 63 and shifts the
  flag and the password into the slots (`rc522_function.c:802`).

Lock-outs and timers
* The text shown is late by the length of the dialogs: the countdown threads count the ticks in which
  they run (`main.c:110`), the timer all of them.
* `timer.c:603` to `605`: a timer that has been taken off the list is called although the touch
  thread has locked, and started it, meanwhile. The lock of `main.c:310` is then open at once.
  `EarlyOnlyInWindow` says of the kernel's timers, and `LockHeld` of the lock-outs as a whole, that nothing else does this;
  without the exception `raced`, TLC finds `LockHeld` violated.
* `timer.c:605` to `614`: an operation that is locked after the call of its function and before the timer is
  started again is unlocked later, as its timer starts over. Its countdown does not: it may reach 0 before the
  unlocking, and then leaves its static tick at 0 for good (`main.c:102`). From then on `down_count` has no new text for any lock-out of
  the operation. `CountdownNotEarly` therefore leaves these operations (`outrun`) out, and fails without that.
* `main.c:310`, `376` and `452` say that the operation is locked after more than three (大于三次) wrong passwords; the code,
  and the model, lock it at the third.
* The timers are periodic by mistake (`main.c:508`). One-shot timers would be taken off the list and leave it
  empty, and then a wake-up can be lost at `timer.c:647`: `NoLostWakeup` fails with `AgainOneShot`.
* `RT_TICK_MAX` stands for an empty list: a timer that is the earliest and expires at that very tick, once in
  2^32, lets the timer thread suspend itself with timers on the list (`mistaken`). It stays so until
  the next start of any timer.

Card reader
* Two cards that are ready together collide, which is an error (0x1B), so neither is read while both stay;
  the comment at `rc522_function.c:683` expects anticollision to choose one.
* `PcdAnticoll` does not look at the length of the answer: four bytes and a check byte left on the
  stack may pass for an ID (`Mixed`).

Clock
* `rtc.c:89` tests the second flag again where the alarm's is meant. It does no harm, and reads the
  counter once more when a second has passed meanwhile.
* The handler and the shell's `RTC_Get` share `daycnt`, which is set before the date is there. When both
  work out a date, the two mix: the wrong date stays until the day changes (a wrong
  date that stays, and month 13, which reads past `table_week`, are both reached in the `clock` run).
* A counter within 1970-01-01 at boot leaves the date at zero, as `daycnt` starts at 0
  (`ClockAssumption` excludes it). `RTC_Set` checks the year only; `RTC_Set_Uart` prints that the time
  is set in any case.
* `year_mon_dat[10]` and `hour_min_sec[8]` are one byte short for the end of the text `sprintf` writes.

Display
* "Welcome!" and the messages of the register and delete dialogs are partly black, and the clock is drawn
  over those dialogs and the set-up's: they are drawn with the interrupt enabled. So is the title of the set-up dialog at boot,
  which may be partly black as well; `TitleRed` is about the titles of the other dialogs.
* `main.c:340` to `342` enables the interrupt before the main window is drawn, so that a clear that is
  interrupted may leave the rest of the old window.
* After the first set-up `psw_check` clears the display and nothing draws the main window.

## 4. What is proved

`TagStoreProofs`, from `LayoutAssumption` (the count field can hold the limit, the chip has room):

* `TypeCorrect`: the types, in every state, the full store and reads outside the chip
  included. `ScanInv` (the slot found and the copies counted lie within the count) makes it
  inductive.
* `SlotsDistinct`, `PasswordSafe`, `Refinement`: under `FewCards`, finitely many tags and
  fewer than slots. `PasswordSafe` needs all of it: the tag in the last slot ends on the flag
  (`storage_flag`). `Refinement` needs that the tags are no more than the slots
  (with more, the tag registered last is not matched), and `SlotsDistinct` held in TLC on small full stores as well; both
  are proved from the one invariant, which counts on a free slot. That invariant is
  `IInv` (in `TagStore`):
  `LiveSlotsDistinct` alone does not survive a step, since a copy that is half done is
  neither the old slot nor the new. `WrittenInv` says up to which byte the slot being written
  agrees with its source, `CountInv` that the locals still agree with the chip and one slot is free.
  That one slot is free follows from distinctness by counting (`Room`). What one byte of an operation does to
  count, slots and password is said once, by the lemmas named `...Effect`; they need only `TypeOK`, `WrittenInv`
  and `BoundInv` (the slots an operation works on lie within the layout) and are shared with `DoorStorageProofs`,
  where copies are possible. Liveness is no part of `TagRegistry!Spec`,
  so the refinement is initial states to initial states and step to step or stutter.

`PanelProofs`, from `LockoutAssumption`: `LockIsHeld`. The invariant `ClockInv` says that for a
locked operation the ticks left and the ticks since the lock-out add up to
the whole or more, and that a function about to be called belongs to a lock-out that is over, or one that is `raced`. It is
needed because the periodic timer may be running, due, or already off the list at the moment of locking. The sum is the
whole only for operations that were not `outrun`.

`ReaderProofs`, from `DoorAssumption`: `OneReader`, from `DInv`: types,
`LockPlace` (the semaphore is in exactly one place: its value, the touch thread or the match thread, and a queue
is non-empty only while the other thread holds it) and that the matches owed an opening are those the semaphore counts.

Also in `ReaderProofs`, from `CardReaderAssumption`: `IdOfOwnRead` and `IdOfPresentCard`, for any number of
cards and of disturbed exchanges, from `CInv`: types (with: a thread that is anywhere in its reading
holds the lock, hence `Alone`), the two properties, and `CallInv`, which says what they need in the middle of a
call: nothing has been used since it began, every card in the field has been seen, and from the return to the
last use `ucArray_ID` is what was returned. The last part is the heart: without the lock the other thread's
request writes into the buffer during the blink. `CalmCardRead`, an action property, needs `CalmInv` besides: a card
that is alone in the field since the call began is idle at the second request, whatever state
earlier calls left it in (a request it does not answer puts it back to idle), and ready at the anticollision.

Also in `PanelProofs`, from `EntryAssumption`: `EntryTypes` and `DialogIsTextEntry`, for any digits, any length of a
password and whatever the stack holds. The refinement needs more than types (`StoredInv`): the password on the chip
agrees with the one last set whenever that one was full, else the comparison of a match would not decide
equality of texts; and no dialog leaves digits to the next one.

Also there, from `LockoutAssumption`: `LockoutTypes`, and with `LongLockOut` (a lock-out lasts longer than its message takes to
draw: five minutes against milliseconds) `TextNotEarly`, for any operations and priorities. The types of
`Lockout` are not inductive: a second lock-out might come while the semaphore of the first is still up, and a countdown might run
below its range. `PlaceInv` says that a semaphore is up only while the touch thread draws the message and
sleeps after it, and nobody counts on it then. `TextInv`, of operations that are not `outrun`, says that a countdown that does not run stands at
`LockTicks` and one that runs is three ticks behind the timer, those of the drawing. One of the three is lost (`Kept`) when the tick that
ends the touch thread's sleep finds the timer thread busy, and with it a countdown thread that has not counted yet.

`SoftTimerProofs`, from `SoftTimerAssumption`, for any timers, period and width of the tick: `NoTimerLost`. The thread
that suspends itself in two steps is saved by `OnList`: a timer once started is periodic and never stopped, so it is
on the list or being called; whoever reads an empty list would have to read it before the first start, and then
the thread is suspended where the first start resumes it. `Misled` leaves out the one tick that stands for
an empty list. The lemmas on the list (`WithoutList`, `PlaceInList`, `StartedList`) need no order of the expiries.

Also there: `TimerTypes`, `ListInOrder`, `UnlockedOnTime` and the refinement `TimersAreService`. All the kernel has are
ticks modulo `W`. `TimeInv` says that there are a time T that does not wrap and an expiry X[o] for each timer,
of which the ticks are the remainders (`TickOf`), and how far apart any two of them can be: expiries at most a period
ahead and at most `Period + MaxLate` behind, and the ticks the thread has read no older than its delays allow.
Then every comparison of the code decides what it is meant to (`TickMinus`, `TickPlus`), the list is in the order of X,
and a timer that is restarted goes to its end (`PlaceIsLast`, `RestartPlaces`), behind
the node that is visited next (`VisitPlaces`). Functions called are due by the time the thread read (`CalledWhenDue`),
and that a timer which is locked meanwhile is called all the same is the window of `raced`. The refinement maps age of a
timer to ticks since its start (`AgeIs`, `StepService`). The proof attempt showed that the first
assumption was too weak: with ticks modulo 15, period 1 and 4 ticks late, `2 * Period + MaxLate < Half` holds, but
two late timers restarted one after the other are compared over more than half the range, and TLC then finds
`ListRight` violated. Hence its third line.

`ClockProofs`, from `ClockAssumption`, for days of any length, any halves and any counter values: `ClockTypesRight`, `SetDateRight`
and, if the counter stays before 2100 (`Before2100`, the years `rtc.c` calls legal), `CalendarStaysRight`. Most of it is about the
loops over years and months, which are proved to compute the Gregorian calendar for every day, not only for those TLC
visits. That takes induction, which the library offers for operators only; it is done on sets of numbers instead
(`Induction`, from the well-foundedness of the numbers). That a recursive function satisfies its equation is shown with
a closed form that does (`YearLoopEq`, `YearsBeforeEq`, `MonthsBeforeRight`): the year of a day is the one that starts no later and ends after it,
which exists and is unique (`YearFound`, `YearUnique`), and a turn of the loop leaves it the same (`YearInIs`). So
`RTC_Set` counts as the reference does (`SetIsDay`), and `RTC_Get` finds the date of a day (`DateRight`, `WeekRight`).
The state machine then needs `DateInv` (the date in `calendar` is that of `daycnt`, but while
the shell is between the two, or after both worked out a date at once) and `HandlerInv` (unless a second has passed the half
read is still that of the counter). Month 13 made `CTypeOK` fail as first written: a mixed date stays in `calendar` while the next command
has already begun. TLC with one command could not see it; with two it does.

The type invariants of all modules are proved, those of `Door` and `CardReader` as
part of `DInv` and `CInv`, where the runs leave them out.

`DoorStorageProofs`, from `LayoutAssumption` and `FewTags` (the tags are finitely many, and together with
the power failures fewer than the slots): `StorageTypes`, `PasswordAskedFor`, `PasswordStored` and `TagsSurvive`. A power
failure may leave two slots with one tag, or a slot with half a tag, so that distinctness is lost and with it the
counting that kept the last slot off the flag. `WasteInv` replaces it: the live slots hold different presented tags,
all but at most as many of them as there were failures (`AllBut`), whichever byte the failure came before. So the
store never fills, and no tag operation reaches flag and password (`PasswordAskedFor`, `PasswordStored`, by
`FlagInv` and `NewPswInv`). `KeepInv` is what `TagsSurvive` needs in the middle of an operation: as long as the tag being deleted was in
one slot, the live slots hold all tags found before but that one, it has no second copy behind the slot being cleared, and the new
count is one less than the old one.
The hypothesis is not idle: in `storage_flag` a full store overwrites the flag.

`ShellStorageProofs`, from `LayoutAssumption` and `ShellAssumption`, for any bound on disturbed transactions: `ShellTypes`,
`ShellKeepsPassword` and `AllTagsDeleted`. The last two are about runs in which no tag operation began inside a
transaction of the shell. `ShInv` says of them that the shell's count, however stale, is that of slots below the last
(`ShellBounds`), which keeps it off the password; and that before a command, and from its last byte on, the
store is again a registry, as in `IInv`, of tags presented since the command began (`FreshOnly`). In the middle
of a command nothing of the kind holds, nor is it needed: that byte sets the count to 0, and the empty store is a registry
whatever the half cleared slots hold (`EmptyIsFresh`).

`ScreenProofs`, from no assumption, as `Screen` has no parameters: `ScreenTypes`, `TitlesStayRed`, `DialogStaysAlone` and
`InkIsBlack`. The run is exhaustive and shows the same; the proof shows why. `todo` is a script that may be at any
of its calls, with the handler between any two of them, so the invariant `ScInv` speaks of what the rest of a script will have done
when it comes to its n-th call (`Before`, `After`). That is said once for a concatenation (`BeforeConcat`, `AfterConcat`,
`TitledConcat`), and every window and message follows from its parts, whatever they are put together to. The parts of `ScInv`:
a call that draws the title of a dialog, and has not been made yet, finds a pen that was set red with the interrupt disabled,
and neither touched since (`TitledRed`); every script ends with the pen black but for the countdown (`Blackened`); only the
touch thread switches the interrupt, and it leaves it enabled when it closes (`Switching`); and how far a dialog for a password or a
countdown is in disabling the interrupt, then clearing the display, then drawing (`Undisturbed`). That order is the heart: cleared
first, the clock may be drawn, or move the controller's cursor, before the interrupt is disabled, and a rest of the old window stays.

Only model-checked: liveness, which is out of the prover's reach: `Unlocked` (`lockout`), `Served`, `DoorCloses` and
`DoorOpens` (`door`), `UnlockedInTheEnd` (`soft_timer`), `CardServed` (`card_reader`) and `ClockReturns` (`screen`).

## 5. Abstractions, and what is not modelled

* *Lockout*: what threads do at a tick is done before the next tick, unless that one ends a sleep of the touch thread, and
  the touch thread's sleeps are longer than one tick. Drawing the message
  takes some milliseconds (`DrawTicks` >= 3), so the countdown thread, woken before the timer is
  started, counts after it. Sleeps are of any length, except that the two seconds after a
  wrong password are longer than the ten ticks a countdown thread rests (`MayWake`).
* *Door*: sleeps have no length, so "matches while the door opens" means any number, up to `MaxOwed`.
* *ShellStorage*: a disturbed write has no effect; a disturbed read returns any value. `UndisturbedKeepsPassword` and
  `DeletedTagsStayDeleted` claim nothing once a transaction was disturbed. `LIST_ALL_TAGS` only reads and prints.
* *SoftTimer*: what the touch thread does between two sleeps is one step, apart from the timer it starts;
  dialogs are bounded by `MaxLate`, which stops time (not the threads) when a timer has waited for so long.
  The skip list has one level, as configured. The countdown threads are in `Lockout` only.
* *CardReader*: register accesses and bits are what an exchange returns: an ID, an error, or a
  disturbed answer. Which tags are registered is left out; the dialogs may go either way after
  `tag_match`.
* *Clock*: `RTC_Init` is `Init`. The handler's steps are the points at which the counter is read. `PutMonth` writes month
  and date in one step. `CalendarRight` leaves out the dates that handler and shell worked out together, which are wrong.
* *Screen*: areas instead of pixels; a text is drawn in two halves, a window cleared in two. Seconds are
  not counted.

Not modelled, and why:

* *Kernel*: third party; used through the operations above. Scheduler, memory, other IPC and the shell's line
  editor appear only as guards (priorities, critical sections) or not at all.
* `PcdSelect`, `PcdAuthState`, `PcdRead`, `PcdWrite`, `PcdHalt`, `Set_Time`, `RTC_Alarm_Set`,
  `AT24CXX_Check`: never called by the firmware.
* Fonts, layout, display controllers, touch panels, SPI, PWM: register accesses without state of the
  program's own. Which key is pressed is a choice of the environment.
* Sensors, GSM, Wi-Fi, network, exercises, `MALLOC`: not started by the firmware.
* HAL, CMSIS, file systems, network stacks, build output: vendor code. It makes up nearly all of `src/`: the
  firmware's own logic is some four thousand lines of `src/bsp` and `src/user`.

## 6. Plan

Done: the tag store with its abstract registry; storage over power failures; the password dialog; the lock-outs; the
door; the shell; the soft timers with their abstract service; the card reader; the calendar, the clock and its
interrupt; the display. All with proofs of what the runs check, liveness apart.

Next, in this order:

1. The shell against `match_thread`, which reads slots the shell is clearing (`rc522_function.c:719`).
