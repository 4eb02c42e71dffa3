---------------------------- MODULE NarratorPrefs ----------------------------
(***************************************************************************)
(* From the prefs file to a request: nw_read_prefs and pref_get, which the *)
(* device task runs once per open, and what nw_do_write makes of them and  *)
(* of the narrator_rb of a CMD_WRITE (voice, AHI volume, port).            *)
(*                                                                         *)
(* A file is a sequence of lines, a line a sequence of symbols: the parts  *)
(* of the key names, blanks, digits and one symbol "v" for any other text. *)
(* voice and voice_male stand for the keys that are prefixes of others,    *)
(* port and gain for the numbers; host and capture are read like voice,    *)
(* split_words and a decimal audio_mode like port without its test.        *)
(*                                                                         *)
(* The client programs read a file of the same format with read_config of  *)
(* main.c and saytest.c, which is another reader.                          *)
(***************************************************************************)
EXTENDS Integers, Sequences, SequencesExt, FiniteSetsExt, Functions

CONSTANTS
    Lines,      \* the lines a file may have
    MaxLines,   \* bound on the lines of a file
    MaxRead,    \* symbols that Read() puts into the buffer (2047)
    ValueRoom,  \* symbols of a value that fit its field
    LongHalf,   \* 2^31: a long is in -LongHalf..LongHalf - 1
    PortSize,   \* 2^16: an unsigned short is in 0..PortSize - 1
    Volumes     \* values of narrator_rb.volume, an UWORD

Blank   == " "      \* blank or tab
NewLine == "nl"

ASSUME PrefsAssumption ==
    /\ \A line \in Lines : line \in Seq(STRING) /\ NewLine \notin Range(line)
    /\ MaxLines \in Nat /\ MaxRead \in Nat /\ ValueRoom \in Nat
    \* A long holds every port and every gain up to 100.
    /\ LongHalf \in Nat /\ PortSize \in Nat \ {0} /\ PortSize <= LongHalf /\ 100 < LongHalf
    /\ Volumes \subseteq Nat

Digit   == [d \in {"0", "1", "9"} |-> CASE d = "0" -> 0 [] d = "1" -> 1 [] d = "9" -> 9]

voice        == <<"voice">>
voice_male   == <<"voice", "_male">>
voice_female == <<"voice", "_female">>
port         == <<"port">>
gain         == <<"gain">>
Keys         == {voice, voice_male, voice_female, port, gain}

VARIABLES
    file,       \* ENV:narrator.wyoming
    stage,      \* "closed", "open"; "lost" when the file could not be read
    prefs,      \* NW::prefs, the snapshot
    request     \* what the last CMD_WRITE asked of the session

vars == <<file, stage, prefs, request>>

-----------------------------------------------------------------------------
(* pref_get.                                                               *)

Buffer(f) ==
    LET all == FlattenSeq([i \in 1..Len(f) |-> Append(f[i], NewLine)])
    IN  SubSeq(all, 1, Min({MaxRead, Len(all)}))

\* Mutant: what follows the key is not looked at.
MatchesPrefix(buf, p, key) ==
    IsPrefix(key, SubSeq(buf, p, Len(buf)))

\* The key stands at p, and a blank behind it.
Matches(buf, p, key) ==
    IsPrefix(Append(key, Blank), SubSeq(buf, p, Len(buf)))

\* The value token behind a key that ends before p.
ValueAt(buf, p) ==
    LET start == Min({i \in p..Len(buf) : buf[i] # Blank} \cup {Len(buf) + 1})
        end == Min({i \in start..Len(buf) : buf[i] \in {Blank, NewLine}} \cup {Len(buf) + 1})
    IN  SubSeq(buf, start, Min({end, start + ValueRoom}) - 1)

\* From one line to the next, as far as the buffer goes; the field keeps its
\* default if there is no such line.
pref_get(buf, key, default) ==
    LET from[p \in 1..Len(buf) + 1] ==
            IF p > Len(buf) THEN default
            ELSE IF Matches(buf, p, key) THEN ValueAt(buf, p + Len(key))
            ELSE from[Min({i \in p..Len(buf) : buf[i] = NewLine} \cup {Len(buf)}) + 1]
    IN  from[1]

-----------------------------------------------------------------------------
(* nw_read_prefs.                                                          *)

\* A signed long that overflows wraps around on the 68k.
Wrap(n) == ((n + LongHalf) % (2 * LongHalf)) - LongHalf

\* The leading digits of a value.
Digits(value) ==
    SubSeq(value, 1, Min({i \in 1..Len(value) : value[i] \notin DOMAIN Digit}
                            \cup {Len(value) + 1}) - 1)

Number(value) ==
    LET digits == Digits(value)
        after[k \in 0..Len(digits)] ==
            IF k = 0 THEN 0 ELSE Wrap(10 * after[k - 1] + Digit[digits[k]])
    IN  after[Len(digits)]

Defaults ==
    [voice |-> <<"lessac">>, voice_male |-> <<"lessac">>, voice_female |-> <<"amy">>,
     port |-> 10200 % PortSize, gain |-> 80]

PortOf(value) ==
    IF value # <<>> /\ Number(value) > 0 THEN Number(value) ELSE Defaults.port

\* Mutant: a gain above unity is not cut.
GainUncut(value) ==
    IF value = <<>> THEN Defaults.gain ELSE Max({1, Number(value)})

\* A number out of 1..100 is moved to its nearer end.
GainOf(value) ==
    IF value = <<>> THEN Defaults.gain ELSE Max({1, Min({100, Number(value)})})

nw_read_prefs(buf) ==
    [voice |-> pref_get(buf, voice, Defaults.voice),
     voice_male |-> pref_get(buf, voice_male, Defaults.voice_male),
     voice_female |-> pref_get(buf, voice_female, Defaults.voice_female),
     port |-> PortOf(pref_get(buf, port, <<>>)),
     gain |-> GainOf(pref_get(buf, gain, <<>>))]

-----------------------------------------------------------------------------
(* read_config of the client programs, line by line.                       *)

Trim(s) ==
    LET text == {i \in 1..Len(s) : s[i] # Blank}
    IN  IF text = {} THEN <<>> ELSE SubSeq(s, Min(text), Max(text))

UpToBlank(s) == SubSeq(s, 1, Min({i \in 1..Len(s) : s[i] = Blank} \cup {Len(s) + 1}) - 1)

\* Mutant: a comment behind the value is part of it.
Commented(val) == val

\* A "#" behind a blank starts a comment, but not at the start of the value.
Uncommented(val) ==
    LET marks == {i \in 2..Len(val) : val[i] = "#" /\ val[i - 1] = Blank}
    IN  Trim(SubSeq(val, 1, Min(marks \cup {Len(val) + 1}) - 1))

KeyOf(line)   == UpToBlank(Trim(line))
ValueOf(line) == Uncommented(Trim(SubSeq(Trim(line), Len(KeyOf(line)) + 1, Len(Trim(line)))))

\* The lines read_config takes for the key; a comment starts with "#" and so
\* does its first word.
ConfigLines(f, key) == {i \in 1..Len(f) : KeyOf(f[i]) = key}

\* The last line wins.
read_config(f, key) ==
    IF ConfigLines(f, key) = {} THEN <<>> ELSE ValueOf(f[Max(ConfigLines(f, key))])

-----------------------------------------------------------------------------
(* nw_do_write.                                                            *)

Texts   == {"empty", "phonemes", "english"}
Sexes   == {"MALE", "FEMALE", "other"}
MAXVOL  == 64
Unity   == 65536    \* 0x10000, full scale of AHI in 16.16

looks_phonetic(text) == text = "phonemes"

\* Mutant: without a voice of its own a sex gets none, and not the common one.
VoiceOfSexOnly(sex) ==
    CASE sex = "FEMALE" -> prefs.voice_female
      [] sex = "MALE"   -> prefs.voice_male
      [] OTHER          -> prefs.voice

VoiceFor(sex) ==
    CASE sex = "FEMALE" /\ prefs.voice_female # <<>> -> prefs.voice_female
      [] sex = "MALE" /\ prefs.voice_male # <<>>     -> prefs.voice_male
      [] OTHER                                       -> prefs.voice

Volume(vol) == (Min({vol, MAXVOL}) * (Unity \div MAXVOL) * prefs.gain) \div 100

NoRequest == [sex |-> "other", asked |-> 0, voice |-> <<>>, volume |-> 0, port |-> 0]

Init ==
    /\ file \in UNION {[1..n -> Lines] : n \in 0..MaxLines}
    /\ stage = "closed" /\ prefs = Defaults /\ request = NoRequest

\* The device task starts; dos.library, the file or the memory may be missing.
Open ==
    /\ stage = "closed"
    /\ \/ stage' = "open" /\ prefs' = nw_read_prefs(Buffer(file))
       \/ stage' = "lost" /\ prefs' = Defaults
    /\ UNCHANGED <<file, request>>

\* A CMD_WRITE.  Nothing is asked for an empty text or for phonemes.
Write(sex, vol, text) ==
    /\ stage # "closed"
    /\ request' = IF text = "empty" \/ looks_phonetic(text) THEN NoRequest
                  ELSE [sex |-> sex, asked |-> vol, voice |-> VoiceFor(sex),
                        volume |-> Volume(vol), port |-> prefs.port % PortSize]
    /\ UNCHANGED <<file, stage, prefs>>

Close ==
    /\ stage # "closed"
    /\ stage' = "closed" /\ prefs' = Defaults /\ request' = NoRequest
    /\ UNCHANGED file

Next ==
    \/ Open \/ Close
    \/ \E sex \in Sexes, vol \in Volumes, text \in Texts : Write(sex, vol, text)

Spec == Init /\ [][Next]_vars

-----------------------------------------------------------------------------
(* What the file says, read line by line.                                  *)

FromText(s)  == SubSeq(s, Min({i \in 1..Len(s) : s[i] # Blank} \cup {Len(s) + 1}), Len(s))

\* The lines that set a key, and the value the first of them gives it.
LinesOf(key) == {i \in 1..Len(file) : Blank \in Range(file[i]) /\ UpToBlank(file[i]) = key}
IsSet(key)   == LinesOf(key) # {}
Setting(key) ==
    UpToBlank(FromText(SubSeq(file[Min(LinesOf(key))], Len(key) + 1,
                              Len(file[Min(LinesOf(key))]))))

\* The number a value writes, in unbounded arithmetic, or 0.
Plain(value) ==
    LET upTo[k \in 0..Len(value)] ==
            IF k = 0 THEN 0 ELSE 10 * upTo[k - 1] + Digit[value[k]]
    IN  IF value # <<>> /\ \A i \in 1..Len(value) : value[i] \in DOMAIN Digit
        THEN upTo[Len(value)] ELSE 0

\* One line of the file, not indented, sets the key, and its value is one word
\* that is not empty, with at most a comment behind it.
SetOnce(key) ==
    /\ Cardinality(ConfigLines(file, key)) = 1 /\ ConfigLines(file, key) = LinesOf(key)
    /\ LET line == file[Min(LinesOf(key))]
           rest == FromText(SubSeq(line, Len(key) + 1, Len(line)))
           behind == FromText(SubSeq(rest, Len(Setting(key)) + 1, Len(rest)))
       IN  Setting(key) # <<>> /\ (behind = <<>> \/ Head(behind) = "#")

Fits(key) == IsSet(key) /\ Len(Setting(key)) <= ValueRoom

-----------------------------------------------------------------------------
(* Properties.                                                             *)

\* Every setting of the file takes effect, wherever its line stands and
\* whatever keys begin like its own; what the file does not set has its default.
\* A value counts if it fits its field, a number if it is a port, or a gain
\* within its documented range.
SettingsHonoured ==
    stage = "open" =>
        /\ Fits(voice) => prefs.voice = Setting(voice)
        /\ Fits(voice_male) => prefs.voice_male = Setting(voice_male)
        /\ Fits(voice_female) => prefs.voice_female = Setting(voice_female)
        /\ Fits(gain) /\ Plain(Setting(gain)) \in 1..100 =>
              prefs.gain = Plain(Setting(gain))
        /\ Fits(port) /\ Plain(Setting(port)) \in 1..PortSize - 1 =>
              prefs.port = Plain(Setting(port))
        /\ ~IsSet(voice) => prefs.voice = Defaults.voice
        /\ ~IsSet(voice_male) => prefs.voice_male = Defaults.voice_male
        /\ ~IsSet(gain) => prefs.gain = Defaults.gain
        /\ ~IsSet(port) => prefs.port = Defaults.port

\* The device and the client programs, which read the same file with two
\* different readers (the first line wins here and the last one there, a value
\* ends at a blank here and at a comment there), take the same voice and port
\* from it, as long as each is set once, by one word, in a line of its own.
ReadersAgree ==
    stage = "open" =>
        /\ SetOnce(voice) /\ Fits(voice) => read_config(file, voice) = prefs.voice
        /\ SetOnce(port) /\ Fits(port) /\ Plain(Setting(port)) \in 1..PortSize - 1 =>
              Plain(read_config(file, port)) = prefs.port

\* AHI is never driven above full scale and a request with a volume is never
\* silenced, whatever the file gives as gain: no number, zero, one too large or
\* one that overflows, and whatever volume the caller asks for.
LevelIsSafe ==
    /\ request.volume \in 0..Unity
    /\ request.asked > 0 <=> request.volume > 0

\* The voice of a request follows the caller's sex: the voice the file gives
\* that sex; where it is left empty the common one, and no voice at all if that
\* is empty too.
SexSelectsVoice ==
    stage = "open" /\ request # NoRequest =>
        LET own == IF request.sex = "MALE" THEN voice_male
                   ELSE IF request.sex = "FEMALE" THEN voice_female ELSE voice
        IN  /\ Fits(own) /\ Setting(own) # <<>> => request.voice = Setting(own)
            /\ Fits(own) /\ Setting(own) = <<>> /\ Fits(voice) =>
                  request.voice = Setting(voice)
=============================================================================
