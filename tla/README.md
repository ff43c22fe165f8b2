# A TLA+ model of poke_gen1_mmo

This directory holds a specification of the parts of the repository whose
correctness is hard to see by reading or testing: the multiplayer server and
its clients, the peer-to-peer link, and the tools that make the game's data and
mods. It has TLA+ modules translated from the source, TLC configurations that
check them on small instances, and proofs, checked by TLAPS, about the server,
its clients' worlds and battles, the link battle, the migrations, the ROM
manifests and imports, the mod tools and the development server. Paths below are relative to `src/`; `mmo/` is
`backend/src/modules/mmo/`, `gen1/` is `gen1recomp/src/`, `tools/` is
`gen1recomp/tools/`.

The repository is a Lua/LÖVE re-implementation of a first-generation Pokémon
game (`gen1recomp`), a small NestJS server (`backend`) that lets many such
games share one world, and Python tools that read the game's data from the
player's own ROM, derive what they need from the disassembly `pokered`, and
gate and package mods.


## 1. The system

### How the parts interact

    overworld --- WorldClient --- Transport === TCP/WebSocket === decoder --- MmoCoordinator
                      |  pollEvents          (web/serve.py between                |
                  BattleFlow --- BattleNet    a browser and it)                   | one object,
                      |          (battle_message envelopes)                       | no persistence
                  LinkBattle / ChallengePrompt / BattleReturn  on game.stack      |
                                                                        all other players

    LinkState --- Net === ENet or relay === Net --- LinkState        two games, no server of ours
       |  TradeSession / LinkBattle                     |

    pokered --- make_*_manifest --- rom_manifest*.json --- build_rom_data(ROM) --- data/generated
       |                                                        ||  verify_rom_data: equal
       +------------------------- tools/extract/* --------------++
    mod directory --- modkit translation | validate | lint | pack --- archive

Every game runs one frame loop (`gen1/core/Game.lua:205-216`): the topmost
screen is updated, then the world client, then the battle flow. The server is a
single Node process: each message, each close, is one uninterrupted call into
the coordinator. So there are no data races anywhere; what is hard is that
games and server believe different things at the same time, because what they
tell each other is on its way. The tools are sequential programs. What is hard
about them is that they are run again and again over what earlier runs, people
and crashes have left, and that two programs must read the same thing out of
two different representations.

### Inventory

| component | state | operations | what is hard | what makes it correct | module |
|---|---|---|---|---|---|
| MMO coordinator `mmo/application/mmo-coordinator.ts`, schemas `mmo/domain/protocol.ts` | four in-memory maps: players by connection and by id, challenges, battles; `battleId` in each player | `handle` (hello, move, challenge, reply, battle message, battle end, ping), `disconnect` | any message at any time, naming anybody and any id; a disconnection ends challenges and battles of others; what was checked at the challenge may be stale at the reply | one engagement per player; the maps agree; fighters are together; nobody hears of a battle that is not his and nobody misses the end of his own | `MmoCoordinator`, `LinkSessions`, `MmoRefinesSessions`; `MmoCoordinatorProofs` |
| World client `gen1/mmo/WorldClient.lua` | remote players, last published state, joined, closed | `update` (poll, handle, publish), `send`, `pollEvents` | deltas of other players cross its own map changes; what it published may be refused | the view is late, never wrong, and becomes right | `MmoPresence`; `MmoPresenceProofs` |
| Client transport `gen1/mmo/Transport.lua` | dial phase and deadline, buffers, inbox | `connect`, `_advanceConnect`, `update`, `send`, `poll` | partial sends, closed in the middle, deadline against success | one stream, in order, or an error once | streams of `MmoPresence`; the dial is left out |
| Battle flow `gen1/mmo/BattleFlow.lua`, `BattleNet.lua`, `ChallengePrompt.lua` | stage, battle id, opponent, net, peer's hello and party, active battle | `challenge`, `reply`, `handleMessage`, `update`, `onFinish` | the next battle can be negotiated while the last is on the screen; callbacks fire later than the state they read | the server's battle is the one the players play, and it ends | `MmoBattleFlow`; `MmoBattleFlowProofs` |
| Line framing `mmo/infrastructure/framing/json-line-decoder.ts`, TCP and WebSocket servers | buffer per connection | `push`, data handler, close | chunk boundaries, limits, one bad line among good ones | what is handled is what was written, in order | `JsonLineFraming` |
| Link battle `gen1/link/LinkBattle.lua` | phase, both actions, turn hashes, shot clock, result | `submit`, `tryResolve`, `resolveLockstep`, `checkHashes`, `update`, `finish` | both sides simulate at their own pace; bye, forfeit, hashes and the next action race the local end | both play the same turns, and record matching results; nobody waits for one who has left | `LinkBattle`; `LinkBattleProofs`; its end also in `MmoBattleFlow`; `newSpectator` is left out |
| Handshake, link menu, trade `gen1/link/Handshake.lua`, `LinkState.lua`, `Protocol.lua` | stage, hellos, verdict, offers, confirmations | `pollHello`, `decideCompat`, `checkCompat`, `startMode`, `updateTrade`, `TradeSession` | a two-second grace for old peers; lists filtered on both sides and indexed across; a commit without a third message | both sides swap what they agreed on, or neither; only equal games fight | `LinkTrade`; `LinkTradeProofs` |
| Tournament client `gen1/link/Tournament.lua` | stage, bracket, match | message handlers | control messages arrive during a match | the match that starts is the one the bracket names | not modelled: its server is not in the repository |
| Link network `gen1/link/Net.lua`, `CodeEntry.lua` | queue of decoded messages | `poll`, `send`, `close` | vendored sockets | a queue | queues that break, in `LinkBattle` and `LinkTrade` |
| Fingerprint and JSON `gen1/link/Fingerprint.lua`, `Json.lua` | none | pure functions of text | | | not modelled: only whether two fingerprints agree matters |
| Database migrations `backend/src/database/migration-runner.ts` | ledger of versions and checksums | `runMigrations` under an advisory lock | a process killed or a connection lost between two statements; several deploys | no script twice, none out of order, the ledger is true | `MigrationRunner`; `ServiceProofs` |
| Accounts, database access, health, wiring `backend/src/account/`, `database.service.ts`, `main.ts` | rows, a pool | single statements | the race is the database's unique constraint | | not modelled |
| ROM extraction `tools/build_rom_data.py`, `tools/rom_data.py`, `tools/extract/*.py`, `tools/verify_rom_data.py` | a ROM, a disassembly | one decoder and one source reader for each table | lists without lengths, packed bits, shared tails, signed offsets, compression | both read the same | `RomBytes` ... `RomSources` |
| ROM manifests `tools/make_rom_manifest.py`, `make_blue_manifest.py`, `make_yellow_manifest.py` | three files | one derivation each | derived from what the others shipped and from a checkout that changes | addresses of its own version, nothing listed that is not there | `RomManifests`; `ToolsProofs` |
| ROM import `tools/build_rom_data.py` `main` | generated tables and pictures | an import with `--clean`, `--only`, `--manifest` | refused, failing or killed in the middle | a table has its pictures, a refused import touches nothing | `RomImport`; `ToolsProofs` |
| modkit gates `tools/modkit.py` | a mod directory, a machine | `scaffold`, `validate`, `lint`, `pack`, ... | the directory is read four times while its author works on it | a package is what was checked | `ModKitPack`; `ToolsProofs` |
| modkit translations `tools/modkit.py` | catalogs, files written by hand | `translation`, `--refresh` | refreshes over refreshes, crashes, an editor open next door | nobody's work is lost | `ModKitTranslation`; `ToolsProofs` |
| Development server `web/serve.py` | two sockets | `_proxy_websocket` | sockets that do not block | a prefix, in order | `DevServer`; `ServiceProofs` |
| Frame loop and screens `gen1/core/Game.lua`, `core/StateStack.lua`, `render/Transition.lua` | stack of screens | `step`, `push`, `pop`, `update` of the top | what is below the top screen stands still | | their order, in `MmoBattleFlow` |
| Game engine, rendering, mod loader, in-game importer, map and voxel tools, scripts, vendored code | | | see "Not modelled" | | |


## 2. The modules

Modules that stand alone: `MmoCoordinator`, `LinkSessions`, `JsonLineFraming`,
`LinkBattle`, `LinkTrade`, `MigrationRunner`, `RomManifests`, `ModKitPack`,
`ModKitTranslation`, `DevServer`, `RomBytes`. Modules that compose:
`MmoPresence` and `MmoBattleFlow` run clients against the coordinator;
`MmoRefinesSessions` relates it to `LinkSessions`; `RomImport` imports with the
manifests `RomManifests` makes; `RomSources` brings all tables together;
`MCParts` puts seven parts that share no state side by side. The theorems are in
modules of their own: `MmoCoordinatorProofs`, `MmoPresenceProofs`,
`MmoBattleFlowProofs`, `LinkBattleProofs` and `LinkTradeProofs` are named after
the module they are about, `ToolsProofs` is about the modkit modules,
`RomManifests` and `RomImport`, `ServiceProofs` about `DevServer` and
`MigrationRunner`, and `ListInduction` about lists. `MmoCoordinatorProofs` also
has the refinement of `LinkSessions`; `MmoPresenceProofs` and
`MmoBattleFlowProofs` build on its invariant.

### MmoCoordinator

One action per handler; a handler is atomic because Node runs it to its end.
`Handle(c, msg)` is the dispatch of `handle` with `onHello`, `onMove`,
`onChallenge`, `onChallengeReply`, `onBattleMessage`, `endBattle` and ping
behind it, and `Disconnect(c)` is `disconnect`. Every early return with an
error is a disjunct of its own, and `sent` holds what the step passed to each
`peer.send`, in call order, so that the properties can speak of who is told
what and when.

| variable | code |
|---|---|
| `conn`, `place` | membership of `playersByConnection` and `playersById`; `mapId` and the rest of the position |
| `battleOf` | `PlayerState.battleId` |
| `challenges`, `battles` | the two maps of that name, as sets of records |
| `drawn` | how often `randomUUID` was called for a challenge or a battle: ids are numbered in that order |
| `sent` | the calls of `send` of the last step |

Abstractions: a player is named by its connection, since a connection joins
once and each connection draws a fresh player id; positions, names and link
payloads are opaque, as they are for the server; a client's message may name
any player and any id, valid or not. The RNG seed of `battle_start` is left
out.

### LinkSessions and MmoRefinesSessions

`LinkSessions` is what the coordinator promises about pairing, in the terms of
the state diagram of `docs/protocol.md:55-61`: each player has a phase and a
partner, and two partners go through the phases together. The code has no such
object. `MmoRefinesSessions` reads phase and partner off the four maps and
checks that each step of the coordinator is a step of `LinkSessions` or a
stutter.

### MmoPresence

The coordinator extended with each player's `WorldClient` and the two
directions of each player's stream. `ClientUpdate(c, n)` is one
`WorldClient:update` in which n messages had arrived: all are applied, then the
local state is published if it differs from the last one sent. `ServerStep` is
the data handler for one message, `ServerLost` and `ClientLost` are the two
ends noticing a broken connection, each in its own time. `Walk` stands for the
overworld. `SendApp` stands for the battle flow, so that presence is checked
with battles starting and ending on the same stream.

### MmoBattleFlow

The coordinator extended with each player's `BattleFlow`, its `BattleNet` and
the screens they push, all players joined and on one map. The record `flow[c]`
has the fields of the Lua object; `Heard` is `handleMessage`, with
`StartNegotiation`, `HandlePayload`, `TryStartBattle`, `Ingest`, `BattleEnded`
and `Fail` translated as functions of the record. `screens[c]` is what lies on
the overworld in `game.stack`, the last on top; only the top screen is updated,
which is why a prompt or the fade can delay what is below it. A `LinkBattle`
ends at any time with any result: `FinishBattle` sends `bye` and, for a lost
battle, calls `onFinish` at once; otherwise a fade is pushed and `FadeEnds`
calls it later. `Clash` and `Unfit` are the pairs whose handshake or parties
are refused; the runs have none (see section 6). `Quit` breaks both directions
of a stream at once; the two-sided break is `MmoPresence`'s subject.

`WorldClient:update` hands all messages that have arrived to the flow in one
frame; the model takes them one at a time, which allows every split of the
stream into frames and adds moments in between at which the player could act.
The flow polls to the end before the next frame's input, so these moments are
those in which the remaining messages had not yet arrived.

### JsonLineFraming

`OnData(n)` is the data handler of both transports for a chunk of n bytes:
decode, check the limit, split, parse, hand over, or answer with the error
code. An excess of the limit empties the buffer and closes the connection
(`Overflow`). The two transports differ in what that means (`Closed`): TCP's
`destroy` ends the events of the socket at once, while `close(1002)` of a
WebSocket only begins the closing handshake, and frames that still arrive are
pushed into the emptied decoder and handled. The WebSocket library has a limit
of its own, on one frame; beyond it nothing is handed over any more
(`FrameTooLarge`). Of the bytes the model tells apart only what matters to this:
newlines, the two bytes of a non-ASCII character, and letters that make a line
invalid JSON or an unknown message. Each of `Decoded`, `ByteLength`, `Split`,
`Kept` is what the JavaScript call of that place does.

### LinkBattle

The two games of a link battle, at their own pace. `side[s]` is the battle
object on the machine of s, with the fields of the Lua object; the messages
handled in `update` are `Receive(s)`, one at a time; each item that
`resolveLockstep` puts in the battle's queue is a `QueueStep(s)`; `Choose` is
`resolveTurn`, `resolveSwitch` and `tryRun` with `submit` and `tryResolve`;
`Finish` is `finish`. A move is chosen by its place in the list, in whatever
order of `Orders` the player has it. Text, animation, the list of moves and the
item menu are the time these take.

The party menu is more than time, because it is a screen of its own that opens
late: `openParty` queues it (`OpenParty`), the next frame reads its messages
and only then pushes it (`ShowParty`), and while it lies on the battle nothing
of the battle is updated, messages included. The player backs out
(`CloseParty`) or sends somebody out (`Choose` of a switch), and `submit` does
not ask whether the battle has got a result in the meantime: he then waits for
an answer that will not come, behind a `return` that looks at nothing else
(`LinkBattle.lua:613-616`).

| variable | code |
|---|---|
| `phase`, `after`, `queue`, `result` | `phase`, `afterQueue`, `queue`, `result` of the battle |
| `mine`, `theirs` | `pendingMyAction`, `remoteAction` |
| `party` | the party menu: shut, its row in the queue, or open on the battle |
| `local`, `remote`, `checked` | `localHashes`, `remoteHashes`, `checkedTurns` |
| `played`, `ran` | what the simulation was fed, of which the hash is a function: the pairs of actions resolved, and whether the moves of the last turn were executed |
| `fate` | what the shared random stream makes of each turn |
| `wire`, `cut` | what is on its way to each side, and whether the link is broken |

What the moves of a turn do to HP is not modelled. What it can decide is: who
loses the last of his party, and in which order each machine comes to see it
(`MoveFaints`: the target before the user, the same on both machines;
`ResidualFaints`: each machine its own player first). A signature is the pair
of actions the turn was played with and whether it was played, so two
signatures differ exactly when the two simulations were fed different turns.

### LinkTrade

Two paired games. `game[s]` is the `LinkState` of s together with its
`TradeSession` (`trade`, `limited`, `sends`, `theirs`, `myPick`, `theirPick`,
`mine`, `their`) and its `Net` (`inbox`, `out`, `closed`). `Frame(s)` is one
`LinkState:update`: what was queued is flushed, some of what is on its way
arrives, a closed or broken link is looked at (`Update`, first condition), the stage
takes the messages (`ModeSelect`, `WaitHello`, `WaitMode`, `Notice`,
`BattleWait`, `UpdateTrade` with `Handle`) and at most one key is pressed: the
stages return the set of what each key makes of the object. Putting unread
messages back for the next stage (`pollHello`, `waitMode`, `battleWait`) is
`Rest`. Closing a link hands out what is queued on ENet and drops it on the
relay (`LastWords`). `Break` truncates both directions and lets each side
notice in its own time; `KillGame` takes a player's process away.

`pairing` is how the two games differ, the value of `checkCompat` when both
hellos are there, and a Pokémon is what the other game makes of it: the same,
something different, nothing. The grace period of `waitHello` may lapse in any
frame. Both games are builds of this repository, which always announce
themselves; menus and dialling before the pairing are left out, and the battle
behind `battleRunning` is `LinkBattle`.

### MigrationRunner

`runner[p]` is a call of `runMigrations` (idle, waiting for the lock, at the
SELECT, at the script, at the UPDATE, done, failed), with the scripts as it
loaded them; `ledger` is `mmo.schema_migrations`; `applied` records which
contents of a script were committed. A script is one transaction, as every file
of `docs/database/migrations` is. `001_foundation` tolerates being run again
(`IF NOT EXISTS`, `ON CONFLICT DO NOTHING`), the others fail on what exists
(`Tolerates`). A process may be killed and a connection lost between any two
statements or during one, whose effect may then be there or not (`Severed`).
The lock goes with the connection, but the driver opens another one for the
next statement, so the run goes on without it (`Disconnected`); and the catch
of the first SELECT takes any failure for a missing table.

### The ROM tables: RomBytes to RomSources

`tools/verify_rom_data.py` compares, for the one ROM and the one disassembly
there are, what `build_rom_data.py` reads from the ROM with what
`tools/extract/*.py` read from the source. These modules say the same of every
source: `RomSources` writes a source file line by line (`AddLine`), an
`Assemble...` operator of each module makes of it the bytes the assembler
would, one operator decodes these as `build_rom_data.py` does, another reads
the lines as the extractor does, and `SourcesAgree` says that both find the
same data or both refuse, wherever both can see what is wrong. It holds after
every line, so for most tables lists without an end, half a block and a missing
terminator are among the sources.

Two tables have mistakes that one reader alone can see; there the property says
that this reader refuses:

* In battle animations the source shows how many lines stand below a head, and
  a delay that its six bits cannot hold; `battle_anims.py` refuses both, and the
  ROM decoder reads other data instead. The bytes show a sound that is the
  number of an animation and not of a move; the ROM decoder refuses it
  (`build_rom_data.py:947`), and `battle_anims.py` takes any name. References
  beyond a table (frame blocks, base coordinates, subanimations, effects,
  tiles) are refused by both. Left out are files whose ROM reads on into the
  next block: rows behind an end or none, a second head, filler lines, labels
  that share a block; and delays beyond six bits with a tileset above 1.
* In texts the ROM decoder knows the commands `text_start`, `text_ram`,
  `text_bcd`, `text_decimal` and `text_end` and raises on every other
  (`build_rom_data.py:1666`), while `text.py` shows nothing for `text_low` and
  `text_pause`, a token for `text_dots`, `text_asm` and `text_far`, and takes
  `text_promptbutton` and `text_waitbutton` for the end of the text. A text in
  which the ROM decoder meets one of these must be refused by it; any other text
  reads the same. `text_move`, `text_box`, `text_scroll` and the sounds are
  refused in the same way and are left out, as are commands inside a string,
  which the game itself prints as glyphs.

| module | tables | sources |
|---|---|---|
| `RomBytes` | bytes, words, signed bytes, nybbles, bits, tables of names | `rom_data.py`, `build_rom_data.py` helpers |
| `RomMaps` | map headers, connections, warps, signs, objects, toggles, blocks | `extract_maps`, `extract/maps.py` |
| `RomTilesets` | tileset rows, collision, warp and door tile lists with shared tails | `extract_tilesets`, `extract/tilesets.py` |
| `RomTables` | moves with their animation flags, items, wild encounters | `extract_moves`, `extract_items`, `extract_encounters` |
| `RomSpecies` | evolutions and learnsets, base stats, trainers' parties | `extract_pokemon`, `extract_trainers` |
| `RomText` | dialogue streams of text commands | `extract_text`, `extract/text.py` |
| `RomBattleAnims` | frame blocks, subanimations, move animations | `extract_battle_anims` |
| `RomCharts` | type chart, palettes, Pokédex entries | `extract_type_chart`, `_dex_entry` |
| `RomPictures`, `RomArtwork` | compressed battle pictures, overworld sheets, icons, fonts | `decompress`, `extract_sprites`, `extract_icons`, `extract_font` |

Names are numbers; pointers between blocks that follow one another are left
out; a PNG is a sequence of tiles of small integers. The macros of `pokered`
that assemble a line are modelled from `pokered/macros` and marked external
where they are the assembler's own (`db`, `dw`).

### RomManifests and RomImport

`RomManifests` is the three generators over checkouts that may be edited
between any two runs: which symbols each manifest embeds, under which address,
what it renames, drops or moves for Blue and Yellow, and where each generator
stops (`DeriveYellow` with `YellowStops`). A symbol is a name and a place.
`RomImport` is `build_rom_data.py`'s `main` and `build`: choose a manifest,
refuse a ROM that does not fit, clean, then write the datasets, each one's
pictures before its table. `todo` is the set of those still to write, of which
the one that comes first in the code's order is `Due`. `Kill` may come between any two steps, and
what a table or directory holds is the version it was made from. One import
runs at a time, manifests are written atomically, and a manifest has a
`romSha1`; these are simplifications.

### ModKitPack and ModKitTranslation

`ModKitPack`: a mod directory is a set of kinds of file, one for each rule of
`lint_dir`, `mod_files` and `run_loader`, with a version; `env` is what the
machine has (dataset, luajit, Pillow). `pack` is five steps because the code
reads the directory four times: the gates (`PackBegins`), the list (`List`),
the hashes (`Hash`), the archive (`Zip`), the record (`Seal`). The author
edits and the machine changes between any two.

`ModKitTranslation`: a catalog under `lang/` is a set of lines (a live entry,
done or not, a parked one), the prose and manifest are `hand`. The command
reads all catalogs first and writes each file in place, in the order of the
code (`WriteOrder`). It may be killed between two files or within one. A catalog
it was writing (`TearCatalog`) keeps a prefix: some entries without the closing
brace, which is a syntax error to Lua, of which the game applies nothing
(`closed`, `Applied`); all entries and some parked lines; and either may end
within a character, which the next refresh cannot decode and stops at
(`garbled`). Any other file (`TearFile`) is torn for good, since every refresh
skips a file that is there; without its manifest or `main.lua` the game applies
no catalog (`Loads`). The translator may mend either by hand (`Mend`,
`EditByHand`). `safe` is a history variable: the translations whose translator
has a right to find them again.

### DevServer

`web/serve.py`'s WebSocket passthrough: bytes are numbered as they are written;
`inbox` and `outbox` are the socket buffers, of which the sending one has room
for `Room` bytes. `Forward` is one turn of the loop: receive up to `Chunk`
bytes, `sendall` them; on a socket that does not block, `sendall` writes what
fits and raises (`SendFails`), which ends the session.


## 3. What is checked

| run | instance | distinct states | what it shows |
|---|---|---|---|
| `coordinator` | 4 players, 2 maps, 4 ids | 9 922 (with symmetry) | The books of the coordinator agree after every sequence of messages and disconnections; starts, ends, payloads and settled challenges are reported to the right players; the maps implement `LinkSessions`. |
| `presence` | 2 players, 2 maps, 1 step walked, connections breaking at any time, a challenge, a battle and its end on the same streams | 305 264 | A view with what is on its way to it is always exactly what the coordinator has; no player is drawn twice; no report is forgotten; views converge to who is really there. |
| `battle_flow` | 3 players, 2 challenges, up to 4 ids | 100 712 (with symmetry) | An open net belongs to the server's battle; a battle the server runs is played or about to be ended; a battle starts only from two parties sent for it. |
| `battle_flow_live` | 2 players, 2 challenges | 13 222 | Negotiation ends, and the end of a battle reaches both players. |
| `link_battle` | 2 turns, running, switching, shot clocks, a link breaking at any time | 267 363 | Both machines play the same turns and see no desync; an action never overwrites another; not both win; who leaves frees the other, but for a party menu that opened too late. |
| `parts` | see below | 1 091 469 | Seven parts that share no state, one at a time. |
| `rom_sources` | sources of a few lines of each of 17 tables | 337 960 | The two readers agree on every source that can be written from the lines of the drafts, and where one alone can see a mistake it refuses. |
| `presence_stale_record`, `battle_flow_stale_end`, `link_battle_outcome`, `link_battle_mismatch`, `modkit_refresh` | | | the five findings of section 6 |

The run `parts` chooses a part initially and then lets only that part move:

| part | bounds (`MCParts.cfg`) | properties |
|---|---|---|
| line framing | 3 lines of 5 kinds, limits of 6 bytes on the buffer and on a frame, every cutting, both transports | `HandledAsWritten`: messages are handled in order, never merged or repeated, and none withheld while nothing is refused; never torn on TCP, and on a WebSocket at most one line for each excess of the limit |
| modkit gates | 10 kinds of file, 2 edits, 1 package | `PackageIsFit`: an archive with its record is what was hashed, and what was made undisturbed holds nothing made from the ROM; `PackMeansValid` |
| modkit translations | 1 label, 1 literal, 3 runs, 1 crash, 2 changes of the texts or the dataset | `KnownWorkStays`, `FinishedIsWhole`, `HandworkStays` |
| manifests and import | 2 imports, 1 edit of a checkout, 5 datasets, all versions | `ManifestsFit`, `ImportIsWhole`, `RefusedTouchesNothing` |
| development server | 3 bytes each way, buffers of 2 | `StreamArrives`: what arrives is a beginning of what was written, whole if the writer closed first and unanswered |
| migration runner | 2 deploys, 2 scripts, 1 edit, 2 kills or lost connections | `LedgerIsTrue`: no script but the tolerant first twice, none before those it builds on, no checksum of what was not executed, and done means done |
| link trade | 2 players, parties of two of two kinds, all pairings, both transports, 1 broken link or killed process | `LinkIsFair`: who swaps, swaps what the other confirmed; a link that holds swaps both or neither; a negotiated trade is of Pokémon both games rebuild alike; only equal games fight |

Why the bounds are enough. Two players make a pair, a third is the one who
interferes with it (challenges one of them, shares a map, is left behind), and
a fourth gives two pairs at once. Two maps are "here" and "elsewhere". Four ids
are two challenges and two battles, in any order: enough for a late message to
name a finished battle while the next one runs. In `battle_flow` two challenges
let a second battle be negotiated with either of the other players while the
first is still on a screen, which is where all its hard behaviour is. One step
walked, by anybody at any moment, crosses any join or leave of the other, and
both start from every combination of maps. In `presence` two players are enough
because a view is made of one player after the other: what a client is told of
one does not depend on the rest. Streams are not bounded by the
model: what goes in is bounded by the walks, challenges and ids, except that
`SendApp` waits for quiet streams. For the framing, a limit of six bytes lets
one chunk of two small lines exceed it, and three lines let a refused one stand
before, between and behind good ones. Limits of six bytes on buffer and frame let
one frame fill the buffer and two exceed it, and let a line begin in a buffer
that is emptied and end in a frame behind it. In `link_battle` neither side can be more
than a turn ahead of the other (`SameTurns`), so two turns bring everything of
a turn together with everything of the next; who faints is enumerated up to
exchanging host and guest, and behind a decisive turn no other is played. In a
trade only one Pokémon of each side changes hands; two slots are enough for a
dropped row to slide an index, and one trouble is enough because a second one
finds a link that is already gone. Two deploys are one that holds the lock and
one behind it; two scripts are the tolerant first and one that is not; two
troubles let a run be killed and its successor lose its connection. A
catalog's keys are merged one by one, so one in each catalog will do; three
runs and two changes let it go, come back and be read again, with a crash in
any of them, so that there is a run before the torn file, one that tears it and
one that finds it. Two imports let one version follow another. Packaging looks at
each file by itself, so one of each kind will do; what an edit between two
passes does is seen with one edit, and the second undoes it. The tables are
read line by line by programs that keep little between lines, and the drafts
put every kind of line behind every other.

Runs allow termination without a deadlock check (`CHECK_DEADLOCK FALSE`): once
all connections are closed or a bound is reached the model really stops, and
so would a system whose clients have all gone. That nobody waits for ever is
what the liveness properties are for.

Symmetry is used in runs of safety properties (and in `coordinator`, whose
temporal formulas are of the form `Init /\ [][A]_v`); the runs of liveness
properties use none.

### Fairness, and why the code justifies it

* A client takes what has arrived, and publishes, again and again: the game
  loop calls `update` once a frame while the game runs
  (`WF(ClientUpdate)`, `WF(HandleMessage)`, `WF(FadeEnds)`).
* The server takes what has arrived: Node drains its sockets
  (`WF(ServerStep)`).
* A broken connection is noticed by the other side: TCP's close or keep-alive
  (`tcp-game.server.ts:28`).
* A `LinkBattle` whose net is closed comes to its end
  (`LinkBattle.lua:603-605`), once its player has pressed on through the text
  still on the screen. In `MmoBattleFlow` this is asked of a player, and that,
  if he asked for his party menu in the very frame of the close, he backs out
  of it: `EndFreesPeer` of `LinkBattle` shows why.
* In `LinkBattle`, frames go on (`Receive`, `QueueStep`, `NextTurn`, `ShowParty`,
  `Finish`) while players press on through the text and close the party menu
  they are shown (`CloseParty`), and a broken link is noticed (ENet's time-out,
  `Net.lua:354-361`). A player may open his party menu again and again, which
  disables `Receive` and `NoticeClosed` again and again, but each frame of the
  battle reads what has arrived and looks at the link before it looks at a key
  (`LinkBattle.lua:570-605`). Between two menus there is such a frame, so
  neither is put off for ever: `Receive` and, once the link is broken,
  `NoticeClosed` are strongly fair, the rest is weakly fair. Choosing is not
  fair: that the other
  side is freed must not depend on what its player does. Only
  `link_battle_mismatch` uses `PlayingSpec`, in which players choose, since a
  player who chooses nothing is no fault of the code.
* Nothing else is asked: nobody has to walk, to challenge, to answer a prompt,
  or to win. `NegotiationEnds` therefore allows for a player who leaves
  a prompt open on top of everything. The parts of `parts` state no liveness:
  their runs end when their users stop, and a trade may wait for a player for
  ever.

`ViewsConverge` assumes that no battle comes in between, because of the first
finding.

## 4. What is proved

Each theorem holds for every value of the constants that the assumptions named
below admit: any number of players, scripts, bytes, texts or turns. The
assumptions say no more than that bounds are numbers and that constants are of
the kind the code handles, and TLC evaluates them on every run.

| module | theorems | properties of the runs they state |
|---|---|---|
| `MmoCoordinatorProofs` | `Safety`, `TypeCorrect`, `EngagedOnce`, `BooksAgree`, `EngagedAreJoined`, `FightersTogether` | `TypeOK`, `OneEngagement`, `BattleBooks`, `OnlyJoinedEngaged`, `FightersShareMap` |
| | `EndsTold`, `StartsTold`, `PayloadsConfined`, `SettledTold` | `EndsAreReported`, `StartsArePaired`, `PayloadsStayInBattle`, `SettledChallengesAreReported` |
| | `Implementation` | `ImplementsSessions`: the coordinator implements `LinkSessions` |
| `MmoPresenceProofs` | `PresenceSafety`, `PresenceTyped`, `ViewsCatchUp`, `ReportsReach` | `PresenceTypeOK`, `ViewCatchesUp`, `ReportsArrive` |
| `MmoBattleFlowProofs` | `FlowSafety`, `FlowTyped`, `NetIsCurrent`, `BattlesArePlayed`, `BattlesAreNegotiated` | `FlowTypeOK`, `NetHasBattle`, `BattleIsPlayed`, `BattleIsNegotiated` |
| `LinkBattleProofs` | `LinkSafety`, `LinkTypes`, `OneSlotIsEnough`, `NeitherIsAhead`, `Lockstep`, `DesyncHasCause`, `OneWinner` | `LinkTypeOK`, `ActionsInStep`, `SameTurns`, `DesyncIsReal`, `OneWinnerAtMost` |
| `LinkTradeProofs` | `TradeIsSound`, `TradeIsFair` | `LinkIsFair` |
| `ServiceProofs` | `MigrationSafety`, `LedgerTrue` | `LedgerIsTrue` |
| | `ProxySafety`, `ProxyTyped`, `StreamsArrive` | `StreamArrives` |
| `ToolsProofs` | `ImportSafety`, `ImportTyped`, `ManifestsAreFit`, `ImportLeavesWhole`, `RefusedIsHarmless` | `ManifestsFit`, `ImportIsWhole`, `RefusedTouchesNothing` |
| | `TranslationSafety`, `TranslationsStay`, `ScaffoldIsWhole`, `HandworkIsLeft`, `PackSafety`, `PackagesAreFit`, `PackedIsValid` | `KnownWorkStays`, `FinishedIsWhole`, `HandworkStays`, `PackageIsFit`, `PackMeansValid` |

### The coordinator

The only assumption is `MaxDrawsAssumption`: the bound on ids is a natural
number.

None of the invariants is inductive alone. A reply that starts a battle keeps
`OneEngagement` only because the two were not fighting, which the code reads
off `battleId`, so `BattleBooks` is needed; `BattleBooks` is kept only because
a new id names no older battle, so the freshness of ids is needed
(`FreshIds`); `FightersShareMap` is kept because a player with a `battleId`
cannot move, so again the books; and a disconnection keeps the books only
because the player it removes has at most one battle. `IInv` is their
conjunction. There is one lemma per handler (`HelloIInv`, `MoveIInv`,
`ChallengeIInv`, `ReplyIInv`, `EndIInv`, `DisconnectIInv`) with a step per
conjunct the handler can disturb; handlers that only answer are covered by
`StutterIInv`; `Safety` puts them together.

What a step tells whom (`EndsTold` and the three behind it) is proved of each
step that starts in `IInv`. That the opponent of a player who drops hears of the end
exactly once needs that a fighter has no challenge open besides
(`OneEngagement`), for `disconnect` reports both; that a payload stays between
the two of its battle needs that the books agree, for `onBattleMessage` checks
the sender's `battleId` and sends to the members of the map's entry.

`Implementation` is the refinement. The abstract state of a player is a phase
and a partner, read off four maps; `View` says what the reading gives in a
state of `IInv` (without `OneEngagement` it would depend on the order of the
maps), and then each handler is one step of `LinkSessions` or none.

### The world clients

`PlaceAssumption` says that "nowhere" is no place, `AppMessagesAssumption` that
what the game says besides its position is a message. The invariant is `PInv`:
the coordinator's `IInv`, the types, `ViewCatchesUp`, `ReportsArrive` and
`JoinsFirst`, that nothing of a player comes to the server before his hello.

`ViewCatchesUp` compares a view moved on by its whole stream (`Applied`) with
the server's map (`Truth`). A client's update moves the border between the two
and leaves the composition as it is (`AppliedConcat`), so what is to be shown is
that each step of the server appends to each stream just what has changed of
the truth for that player: `Informs`, with one lemma per handler. A join, a
move within a map, a move to another map and a departure each say something
else to the player himself, to those on the map he left and to those on the map
he came to; of everything about challenges and battles it is shown that it
leaves every view as it was (`Silent`). A player who is only now joining may
have had anything in view: his snapshot replaces it.

`ReportsArrive` is kept because a report is refused only before the hello,
which `JoinsFirst` excludes, or within a battle, which the property leaves out
(finding 1).

### Server, streams and clients

The clients of `MmoBattleFlow` act on what the server said some messages ago,
so no invariant can compare a client with the server directly. `Stream(f, s, b,
d)` therefore speaks of a client's record f and his unread stream s as one
sequence: a battle begins at place 0 if a net is open, and at each
`battle_start` on the stream;

* `Parted`: between two beginnings there is the end of the first;
* `Current`: what has begun is the server's battle b, or its end is on the
  stream behind it;
* `Rising`, `Drawn`: ids begin in ascending order and are drawn (`d`);
* `NotOver`: no end of b is on the stream;
* `NetOf`: the net is that of the battle begun last, or none.

Taking a message moves the border between record and stream and leaves the
sequence as it is (`TurnedStream`); what a step of the server appends fits
because of `IInv` (`AppendStream`, with one lemma per handler for what the step
says to whom: at most one message that a `BattleFlow` takes notice of). For
`NetHasBattle`, `Current` at place 0 is all that is needed, and each other part
of `Stream` is needed to keep it.

`Negotiated` adds that every battle of the server's is played
(`PlayedBy`), that who has had the other's hello has sent his party
(`Prepared`), and that no party is on either stream or in an inbox that was not
sent for this battle by a player who is still there or on his way out
(`SentFirst`). It holds under `NoClash`, that no pair of mods or parties is
refused, and the two theorems that rest on it say so: with a refusal the
properties are false, because `BattleFlow:fail` tells the server nothing
(section 6). `PayloadAssumption` says that hello, party and bye are payloads.

The steps of a game (`Plays`) and of the server (`Serves`) are taken apart
once: each action is shown to be one of the two, and each of the two to keep
the invariant.

### The link battle

`SlotAssumption` and `BattleAssumption` say what a slot, an order of the list
and a fate are. The argument counts. Each side chooses once for a turn, and
resolves the turn when it has both actions. So what is on its way to a side are
at most two actions, and the place of an action in the queue says for which
turn it was chosen (`Due`): `Way` says this of three numbers and a set of
places, `Whole` that nothing is missing while the link holds, `InOrder` ties
the actions to it, `Sound` says what holds of each machine alone (a turn that
is over has its signature), and `Gone` what a machine is like whose player has run away
in a turn the other has yet to resolve. `ActionsInStep` (one slot for the
opponent's action is enough) and `NeitherIsAhead` hold whatever the players do.
`SameTurns` and `DesyncIsReal` are proved under `ListsStay`, that no move list
is reordered: with SELECT the machines do part, which is finding 4.

`OneWinner` looks into the turns, with a second invariant, `EndInv`, on top of
the first. `Course` is about one machine: when it has a result (`Ends`), that
no turn but its last brings the last faint of a party, which then stands last
in its queue until it is told (`Tells`), and where its result is from: a faint it
has told, a clock that ran out, here or with the opponent (`Outcome`). `Told` is
about what two machines say to each other: that a forfeit or a bye is
followed by no action and is not sent before there is a result (`Closing`),
that the signatures a machine has from the other are the other's, and those it
has not yet are on their way (`Signatures`), and that who has a result with an
action still unanswered will not be answered (`Alone`). That is also the lot of
a player who sends somebody out of a party menu that opened after the end, with
one exception: where the opponent's action had arrived before a link broke, he
plays a turn behind the end, for which the opponent waits in vain. So `EndInv`
says that both machines are on their course (`OnCourse`), or that this has
happened, and then the one does not win and the other does not lose (`Parted`). From these, a machine
finds a mismatch only if the other one has a result already (`MismatchEnds`),
two machines that have both played the deciding turn agree on who lost it
(`DecidedOnce`), and one that ran out of time is not behind (`LateIsAhead`); so
there are not two winners, and two losers only if both ran out of time.

Besides `ListsStay` the theorem needs `OnePoisoned`: if the last of both
parties faint of poison at the end of one turn, each machine tells its own
player's loss first and the opponent's behind it, and each records a win
(section 6). `Fates` of the runs has no such turn either.

### Handshake and trade

`PartiesAssumption`: a party is a sequence of Pokémon that each are shared,
differ or are unknown on the other game. Nothing is asked of its length, of how
many messages a frame brings, or of when a link breaks.

A game knows its peer only from messages, and these may be late. `Says(p, o,
m)` is what it means that o, the game of p, has said m: a hello names the mode
he is in, a party is the list he trades from, a pick is a place of his choice
in that list, a confirmation means that he has confirmed, a bye that he has
ended without. All of this stays true as he goes on (`Later`, `LaterSays`): a
verdict, a list that was sent, a pick and a confirmation are never taken back.
So what is on the wire, in an inbox or not yet sent is true
(`Said`), and what a session keeps of it is true of the peer (`Knows`), among
it that the lists of a strict session are the same on both sides. `Shaken` and
`Session` say what each stage of the handshake and of the session has behind
it. `SwapsAreAgreed` and `BattlesNeedTheSameGame` follow, whatever is lost.

`NobodyIsRobbed` needs that nothing was lost, and there `Calm`: a confirmation
is unread, read or its reader has left (`Delivered`); a session that is done
while its game has still to leave has a peer who has not had the confirmation
yet (`Pending`); who leaves after he confirmed and without a swap was left by a
peer who did not confirm, or whose program has stopped (`Alone`); a link is
closed by its other end, behind all that was said (`Closing`).

A frame reads, handles a stage and sends; each stage has a lemma of its own,
and `FrameKeeps` puts them together. That the parties match what was said of
them is where a list is filtered (`DroppingPicks`, `DroppingNothing`): a strict
session that drops nothing has the peer's list.

The proof found one thing wrong in the model: the first alternative of
`Update`, that a closed link with nothing left to read ends the game, and those
for the stages overlapped in a `CASE`, so that TLA+ did not say which is taken.
TLC takes the first, as the code does; the model now says it with an `IF`, and
the proof reads what is checked.

### The migrations

`MigrationAssumption` says that there is a script and that "absent" and "unset"
are not contents. While no connection is lost the lock alone would do
(`OneAtATime`). Without it the proof rests on a script failing on what it finds
done: only the run whose transaction inserted a row is in "record" for it, so
only it writes the checksum (`RunIsTrue`), and whoever has passed a script
finds its checksum for good (`Settled`). The first script, which tolerates what
is there, is the exception that the property makes too.

### ROM manifests and imports

`TreesAssumption` describes what a checkout of each version can be,
`DatasetsAssumption`, `AskedByAssumption` and `ArgumentsAssumption` the command
line and what each dataset asks of a manifest. A manifest `Fits` its version if
it lists only what it can place, at that version's addresses. Blue's takes its
music from Red's manifest with Red's addresses, which is right because nothing
of it is at another place in Blue (`MusicStays`); Yellow's takes names from
Red's, renames or drops them, and is not written where one cannot be placed.

`ImportInv` adds what an import has behind it: it reads the manifest it began
with, whatever is generated meanwhile, and that one fits its ROM (`RunFits`);
what is no longer to do is written, the pictures before the table (`Written`);
after `--clean` there is nothing of another version (`Emptied`); a table has its
pictures (`Illustrated`), and `Ended` says how an import can have ended.
`Illustrated` is kept by imports that fail or are killed because cleaning takes
away all tables before the first picture, and nothing else takes a picture away.

### modkit

`KeysAreOrdered` (keys are numbers) and `KindsAreKnown` (the kinds of findings
are those the rules have). A translation is kept because a run writes back what
it read, with a line for every key it knows: `SafeIsRead` ties `safe` to the
catalog and, while a run is on, to what that run has read; `WrittenIsWhole`
says the same of the files already written, that they have their ends, and
`FirstRunIsAlone` that a first run overwrites nothing and finds nothing torn.
`TranslationsStay` says that safe work stands where the next refresh reads it;
that the game applies it is said by `ScaffoldIsWhole`, of the moment a command
has written its last file, for between a kill and the next refresh it does not. A package is fit because the gate looked at the very
files that are zipped: `PackInv` follows, pass by pass, what has been read of
the mod and whether anybody has touched it since.

### The proxy

`ProxyAssumption`: sizes of buffers are numbers, and a read reads something.
Where a byte is says its number: received, in the proxy's buffer and in the
socket's are consecutive stretches of what the other side has written
(`SentIsBeginning`, `RestIsNext`), and `EndIsClean` says what is left when a
side closes.

### Induction

Values that the code computes item after item of a list are functions on
`0..Len` in the modules with proofs (`Applied`, `Handling`, `Noticeable`,
`Handled`, `Dropping`), not folds of a library. What such a function keeps is
proved by induction over a set of numbers (`LeastNumber`, `Inductive`,
`CourseExists` in `ListInduction`), which needs no theorem with an operator for
a parameter: `HandlingKeeps` says that what each payload keeps, the whole inbox
keeps, `NoticeableConcat` that what is noticed of two lists is noticed of each,
and `DroppingPicks` that a filter keeps what it is to keep.

### What stays model-checked

* Liveness, which is outside what the prover does: `NegotiationEnds`,
  `EndReachesBoth`, `ViewsConverge`, `EndFreesPeer`.
* `HandledAsWritten` of `JsonLineFraming`: what is split from bytes is computed
  by folds over the list, and the statement compares what two of them
  compute for every list.
* The agreement of the two readers of a table (`SourcesAgree`), which is
  induction over data; `RomPictures` and the modules above it use `Bitwise`,
  which the prover cannot use at all.
* `PartsTypeOK`, the conjunction of the parts' types in the run `parts`; those of
  the import and of the proxy are theorems.
* The statements of the five findings, which are false.


## 5. Plan

Every safety property of the runs that the prover can reach is a theorem.

Modules still worth writing: the dial of the transport (`connect`,
`_advanceConnect`, deadline, queued sends), and the spectator of a tournament
match.


## 6. Findings

Five runs check a statement of the repository and find the code does
otherwise.

1. `presence_stale_record`. A move that reaches the server after `battle_start`
   was issued is refused (`mmo-coordinator.ts:91`), but the client has already
   noted it as sent (`WorldClient.lua:188-193`) and does not repeat it. After
   the battle the server, and everybody's screen, has the player one step from
   where he is, until he moves again
   (`docs/ai_agents/source_investigation.md:196-198`).
2. `battle_flow_stale_end`. `onFinish` sends `battle_end` for `self.battleId`
   at the time the fade is over (`BattleFlow.lua:129`). If the opponent has
   ended the battle before, and the next one was accepted meanwhile, the next
   battle is ended instead (`gen1recomp/tests/mmo_battle_flow_test.lua:133-134`).
3. `link_battle_outcome`. The winner's bye can reach the loser's machine before
   it has played the decisive turn; it then records a draw
   (`LinkBattle.lua:582-587`, `BattleState.lua:3025`) where the winner has
   recorded a win (`gen1recomp/tests/run_link_tests.lua:379-381`,
   `link_desync_fuzz.lua:20-21`).
4. `link_battle_mismatch`. After a desync is seen, the opponent's next action
   makes `resolveLockstep` go on with the battle (`LinkBattle.lua:395-396`),
   which then has a result and so is ended by nothing any more
   (`gen1recomp/docs/behavior-porting-notes.md:484-485`). The run brings a
   desync about with SELECT: the move list is reordered on one machine only
   (`BattleState.lua:1674-1690`), and the slot sent names another move on the
   other. `link_battle` therefore runs without reordering.
5. `modkit_refresh`. A refresh writes the translations of keys that are gone as
   lines the next refresh does not read (`modkit.py:1887`), and so loses them,
   where `docs/new-features.md:376-377` promises to park them.

### Noted while modelling

No run states these; they are where a property has an exception, or where the
model was told something of the code that its documents do not say.

*Server and clients.* When the handshake fails, `BattleFlow:fail` tells nobody
(`BattleFlow.lua:51-56`): both players stay in the server's battle, where they
can neither move nor be challenged, until one disconnects
(`docs/protocol.md:58`); `battle_flow` therefore runs with no clash. Each chunk
is decoded as UTF-8 by itself (`json-line-decoder.ts:17`), so a character cut
by a chunk boundary is damaged, which `HandledAsWritten` leaves out. When a
line exceeds the limit on a WebSocket, what arrives while it closes goes into
the emptied decoder, and the tail of that line is handled as a line of its own
(`websocket-game.server.ts:105`, `:114-124`); it mostly is no JSON, but where it
is, the coordinator acts on it. The backend's README says that a WebSocket frame is one JSON object without a
newline (`backend/README.md:33-35`), but the decoder waits for a newline, and
would never handle such a frame. The decoder's limit is on what is buffered
with one chunk, so two small messages in a chunk can exceed it. A challenge has
no timeout, so a player who never answers a prompt keeps his challenger from
every other challenge. A challenger who has walked to another map is not told
that the reply to his challenge was refused (`mmo-coordinator.ts:151-154`), the
exception spelt out in `SettledChallengesAreReported`. When the client's socket
closes, `WorldClient:update` returns before it polls, and messages that came
with the close are lost.

*Link battle.* A player opens his party menu, and in the frame before it is
shown a bye, a forfeit or the close of the link gives the battle its result.
The menu opens all the same (`LinkBattle.lua:513-531`, `BattleState.lua:1087`),
and whom he sends out is submitted (`:475-482`): the phase is `waitRemote`, and
`update` returns at `:613-616` in every frame, while `:603`, `:585` and `:591`
ask for a battle without a result. He cannot leave the battle any more. Where
the opponent's action has arrived before, `resolveLockstep` plays another turn
behind the end instead, as in finding 4. This is the exception of
`EndFreesPeer` (`SentOutLate`); without it TLC shows the behaviour. At the end of a turn each machine looks at its own player first
(`BattleState.lua:2319-2320`), so when the last two Pokémon faint of poison
together each machine records a win: `OneWinnerAtMost` fails if `Fates` has
such a turn. Two players whose shot clocks run out together both record a
loss.

*Trade.* Between two releases the notice says "Trading is limited to shared
POKéMON" (`Handshake.lua:303-304`), but only the verdict `subset` makes a
limited session (`LinkState.lua:512`): across releases everything is offered,
and what the other game knows under another definition is rebuilt differently.
When the grace period lapses before the guest's hello is there, the host takes
him for an old build: his session then drops Pokémon it does not know, so that
every later index of the guest's slides by one and the host may receive
another Pokémon than was picked, or stop with an error in
`TradeSession:apply`; if the games differ in data, the guest waits for records
the host will not send until somebody presses B. Both need a hello that takes
two seconds; `SwapsAreAgreed` and `NobodyIsRobbed` ask for sessions that know
of each other. When a link breaks, or a process is killed, between the two
commits one player has swapped and the other has not: there is no third
message. A frame is one step in the model, so it cannot show the close of a
peer who answers within the very call of `net:update` that delivers the last
confirmation, which `LinkState.lua:229-235` would take for a broken link. A
bye sent over the relay is dropped with the socket (`Net.lua:389-393`); the
peer sees a closed link instead.

*Migrations.* A run that is cut off between a script and the update of its
checksum leaves a row without one, and every later run refuses that script as
"changed after being applied", although the scripts "are transactional and
record applied versions and SHA-256 checksums" (`docs/database/README.md:16-17`).
The catch for `001_foundation` takes any failure of its SELECT for a missing
table (`migration-runner.ts:34-37`): after a lost connection, and with it the
lost lock, the run goes on beside another one and may overwrite its checksum.
The deploys are then no longer serialized (`docs/database/README.md:15`); what
still keeps `002` and `003` from being applied twice is that their own
statements fail on what exists.

*ROM tables.* `make_rom_manifest.py:332-338` keeps text labels without an
underscore that `extract/text.py` drops, so a comparison of all texts by
`verify_rom_data.py` cannot hold (one such label is in the shipped Red
manifest); `TextsAgree` is about labels both know. An empty tile list that is
not the last of its group leaves the group open for the next. An
encoding of a battle picture (`pkmncompress` of the disassembly) whose first
plane ends in a packet and whose second begins with one may decode to another
picture; `PicturesAgree` leaves it out.

*Import, manifests.* Without `--clean` a killed import leaves tables of one
version beside pictures of another. `--only icons --clean` leaves icons that
name overworld sheets which are gone. Yellow's manifest silently lacks what
Yellow does not have (`make_yellow_manifest.py:342`); in the shipped one these
are the `FightIntro...` symbols alone.

*modkit.* `pack` says it runs `validate --strict` (`modkit.py:1101`) but does
not look at the `github` field, the exception in `PackMeansValid`. `packed_at`
makes two packages of the same mod differ. Without a dataset the rule that
compares with it is skipped with a warning, which `pack` takes for a failure
where the mod is a translation. What a translator saves while a refresh is
running is overwritten. A refresh that is killed within `emit`
(`modkit.py:1777`) leaves an empty or halved `manifest.json`, `main.lua` or stub,
and every later refresh skips it because it is there (`:1771`): the mod stays
broken until its author writes or deletes the file. One that is killed within a
catalog leaves a syntax error, and the game applies nothing of it
(`:1452-1456`) until the next refresh, which reads what stands before the cut;
what stood behind it is lost. If the cut is within a character, the next
refresh stops with an error before it has written anything (`:1888-1889`), and
so does every one after it, until the file is mended, though the line scan
"has to survive a half-edited file" (`:1883`).

*Development server.* A `sendall` into a full buffer ends the session, however
short the congestion; when the browser closes, what the game had under way is
dropped; the handshake's own `sendall` stands outside the `try`.


## 7. Not modelled

* The tournament client: brackets are kept by a server that is not in the
  repository, and a match is a handshake and a `LinkBattle` over its connection.
* The dial of the transport, the menus and dials of the link, sockets.
* Accounts, database access, health, wiring: single statements and I/O.
* The game engine: battles, overworld, scripts and saves are sequential and
  deterministic and far beyond a small instance. What a turn may decide is the
  constant `Fates` of `LinkBattle`.
* Rendering, audio, input, menus; the mod loader, which appears in `ModKitPack`
  as the set of its findings.
* `extract/field.py`, `extract/audio.py` and the like: some fifty unrelated
  tables of constants, each read by a few lines of its own; the shapes they
  share with the modelled tables are checked there.
* The in-game importer (`import/RomImporter.lua`), the port of
  `build_rom_data.py` that runs on a player's machine.
* `tiled_export.py`, `building_voxels.py`, `save_convert`: batch conversions
  with heuristics, without state between two runs and without a promise precise
  enough to state.
* Scripts, `pokered/` except the macros the readers depend on, and the
  rendering mod.


## 8. Running

    tlc -config MCMmoCoordinator.cfg MCMmoCoordinator
    tlapm MmoCoordinatorProofs.tla

and so on for each pair of configuration and MC module and each module with
theorems. The longest run,
`MCParts`, takes two to four minutes with two workers, the longest proof,
`LinkBattleProofs`, four to seven. Definitions whose
comment begins with "Mutant of" are deliberate mistakes: put in place of the
definition they follow, each makes a property of the runs fail, which shows
that the property depends on that definition. `PROJECT.json` lists them, the
runs, the source lines behind each definition, and the hazards of the code
with the properties that cover them.
